---------------------------- MODULE Spec2Model ----------------------------
(***************************************************************************)
(* Operations-research teaching demos: production planning (LP), network   *)
(* flow (max flow, min-cost flow, shortest path) and transportation        *)
(* problems.  Each demo object builds a model from hard-coded data, hands  *)
(* it to a solver (PuLP/CBC or NetworkX), derives metrics from the         *)
(* solution and stores a result entry in self.results.                     *)
(*                                                                         *)
(* The solvers are libraries outside the repository.  They are modelled by *)
(* exact algorithms of the same family (primal simplex with a symbolic     *)
(* big-M, augmenting paths, Dijkstra).  Where a library is free to return  *)
(* any of several optimal answers, the rule it uses to break ties is fixed *)
(* but unknown: it is the variable tieBreak, chosen once in Init.          *)
(* Quantities the libraries return as floats are exact rationals here: a   *)
(* solution is a vector of numerators over one common denominator.         *)
(***************************************************************************)
EXTENDS Integers, Sequences, FiniteSets, TLC

VARIABLES
    demo,        \* which script runs: "lp", "net" or "tp"
    tieBreak,    \* the solver's tie-breaking rule: "first" or "last"
    lpResults,   \* LinearProgrammingDemo.results
    netResults,  \* NetworkFlowDemo.results
    netGraphs,   \* NetworkFlowDemo.graphs
    tpResults,   \* TransportationProblemDemo.results
    solveLog,    \* the solver invocations made so far, in order
    supply,      \* solve_basic_transportation: local supply list
    demand,      \* solve_basic_transportation: local demand list
    factories,   \* solve_basic_transportation: local factories list
    warehouses,  \* solve_basic_transportation: local warehouses list
    cost_matrix, \* solve_basic_transportation: local cost matrix
    balanced,    \* whether the balancing step (lines 91-108) has run
    mainPc,      \* 0: an importing caller calls the methods; k > 0: main()
                 \* is about to make its k-th method call
    callLog,     \* the methods called on the demo object so far, in order
    saPc,        \* sensitivity_analysis: 0 when not running, else the
                 \* number (1..12) of the variant it solves next
    variantLog,  \* the variants sensitivity_analysis has solved, in order
    chartWrites, \* how many times plt.savefig has written the chart file
    estimateLog  \* the estimates the latest cost_sensitivity_analysis printed

\* the locals of solve_basic_transportation that its balancing step rewrites
tpLocals == <<supply, demand, factories, warehouses, cost_matrix, balanced>>

\* the state of a running sensitivity_analysis, the chart file and the
\* printed estimates
sideVars == <<saPc, variantLog, chartWrites, estimateLog>>

vars == <<demo, tieBreak, lpResults, netResults, netGraphs, tpResults,
          solveLog, tpLocals, mainPc, callLog, sideVars>>

-----------------------------------------------------------------------------
(* Bounds of the model *)

\* most solver invocations followed in one run of a script
MaxSolverCalls == 3

\* largest supply or demand drawn for the balancing step
MaxQty == 2

\* most method calls an importing caller makes on one demo object
MaxCalls == 3

-----------------------------------------------------------------------------
(* Arithmetic on sequences *)

\* the one element of a singleton set.  Only({e(x) : x \in {v}}) is e(v)
\* with v computed once, however often e reads x
Only(S) == CHOOSE x \in S : TRUE

\* the sequence s with every element computed (TLC would otherwise recompute
\* an element each time it is read)
Eager(s) == SubSeq(s, 1, Len(s))

RECURSIVE SumTo(_, _)
SumTo(q, k) == IF k = 0 THEN 0 ELSE q[k] + SumTo(q, k - 1)

SumSeq(s) == Only({SumTo(q, Len(q)) : q \in {Eager(s)}})

Dot(a, b) == SumSeq([k \in 1..Len(a) |-> a[k] * b[k]])

RECURSIVE SumOver(_, _)
SumOver(S, f) ==
    Only({IF T = {} THEN 0
          ELSE Only({f[e] + SumOver(T \ {e}, f) : e \in {CHOOSE e \in T : TRUE}})
          : T \in {S}})

MinOf(S) == Only({(CHOOSE a \in T : \A b \in T : a <= b) : T \in {S}})
MaxOf(S) == Only({(CHOOSE a \in T : \A b \in T : a >= b) : T \in {S}})

Abs(a) == IF a < 0 THEN 0 - a ELSE a

RECURSIVE GCD(_, _)
GCD(a, b) ==
    Only({IF y = 0 THEN Abs(x) ELSE GCD(y, x % y) : x \in {a}, y \in {b}})

RECURSIVE GCDTo(_, _)
GCDTo(q, k) == IF k = 0 THEN 0 ELSE GCD(q[k], GCDTo(q, k - 1))

GCDSeq(s) == Only({GCDTo(q, Len(q)) : q \in {Eager(s)}})

\* the tie-breaking rules a solver may follow
TieRules == {"first", "last"}

\* no variable has an upBound
NoUpBound == [k \in {} |-> 0]


-----------------------------------------------------------------------------
(* Who calls the methods.  Each script's main() calls the methods of its   *)
(* demo object in a fixed order; a caller that imports the module may call *)
(* them in any order.  The object is used by one thread: no method is      *)
(* called while sensitivity_analysis is still solving its variants.        *)

\* main() with the charts drawn before anything is solved
MainStepsChartFirst(d) ==
    CASE d = "lp"  -> <<"visualize_results", "solve_production_planning",
                        "sensitivity_analysis", "generate_report">>
      [] d = "net" -> <<"visualize_results", "solve_max_flow_problem",
                        "solve_min_cost_flow_problem",
                        "solve_shortest_path_problem",
                        "network_analysis", "generate_report">>
      [] d = "tp"  -> <<"visualize_results", "solve_basic_transportation",
                        "solve_multi_product_transportation",
                        "cost_sensitivity_analysis", "generate_report">>
      [] OTHER     -> << >>

\* the method calls of main(), in order
MainSteps(d) ==
    CASE d = "lp"  -> <<"solve_production_planning", "visualize_results",
                        "sensitivity_analysis", "generate_report">>
      [] d = "net" -> <<"solve_max_flow_problem", "solve_min_cost_flow_problem",
                        "solve_shortest_path_problem", "visualize_results",
                        "network_analysis", "generate_report">>
      [] d = "tp"  -> <<"solve_basic_transportation",
                        "solve_multi_product_transportation",
                        "visualize_results", "cost_sensitivity_analysis",
                        "generate_report">>
      [] OTHER     -> << >>

\* the method m of the demo d may be called now
MayCall(d, m) ==
    /\ demo = d
    /\ saPc = 0
    /\ IF mainPc = 0
       THEN Len(callLog) < MaxCalls
       ELSE mainPc <= Len(MainSteps(d)) /\ MainSteps(d)[mainPc] = m

\* the call of method m is made
Called(m) ==
    /\ callLog' = Append(callLog, m)
    /\ mainPc' = IF mainPc = 0 THEN 0 ELSE mainPc + 1

\* the solve methods called so far (sensitivity_analysis solves variants of
\* its own, network_analysis computes graph metrics)
SolveCalls ==
    Len(SelectSeq(solveLog, LAMBDA e : e \notin {"sensitivity", "metrics"}))

\* an importing caller is followed for MaxSolverCalls solve methods
MaySolve == mainPc = 0 => SolveCalls < MaxSolverCalls

-----------------------------------------------------------------------------
(* The LP solver behind prob.solve(pulp.PULP_CBC_CMD(msg=0)).               *)
(*                                                                         *)
(* A PuLP problem is a record                                              *)
(*   [sense, obj, cons, up]                                                *)
(* sense "max" or "min"; obj the objective coefficient of each variable;   *)
(* cons the constraints in the order of the  prob += ...  statements, each *)
(* [coef, op, rhs] with op "le", "ge" or "eq"; up the upBound of the       *)
(* variables that have one.  Every variable has lowBound = 0.              *)
(*                                                                         *)
(* The solver is a primal simplex on a fraction-free tableau: every entry  *)
(* of rows, r1 and r2 is a numerator over the common denominator D.  r1 is *)
(* the reduced-cost row of the sum of the artificial variables and r2 that *)
(* of the objective; a column may enter when (r1, r2) is lexicographically *)
(* negative, which is the big-M method with M symbolic.                    *)

\* an upBound is one more <= row
BoundRows(m) ==
    LET n  == Len(m.obj)
        ks == SelectSeq([k \in 1..n |-> k], LAMBDA k : k \in DOMAIN m.up)
    IN  [r \in 1..Len(ks) |->
            [coef |-> [j \in 1..n |-> IF j = ks[r] THEN 1 ELSE 0],
             op   |-> "le",
             rhs  |-> m.up[ks[r]]]]

\* a row with a negative right-hand side is negated
NormRow(c) ==
    IF c.rhs >= 0 THEN [coef |-> Eager(c.coef), op |-> c.op, rhs |-> c.rhs]
    ELSE [coef |-> Eager([j \in 1..Len(c.coef) |-> 0 - c.coef[j]]),
          op   |-> IF c.op = "le" THEN "ge" ELSE IF c.op = "ge" THEN "le" ELSE "eq",
          rhs  |-> 0 - c.rhs]

StdRows(m) ==
    Only({Eager([i \in 1..Len(all) |-> NormRow(all[i])])
          : all \in {m.cons \o BoundRows(m)}})

\* columns: 1..n structural, n+i slack/surplus of row i, n+mm+i artificial
\* of row i, n+2mm+1 the right-hand side
TableauOf(m, cs) ==
    LET n    == Len(m.obj)
        mm   == Len(cs)
        L    == n + 2 * mm + 1
        art  == {i \in 1..mm : cs[i].op # "le"}
        row(i) ==
            [j \in 1..L |->
                IF j <= n THEN cs[i].coef[j]
                ELSE IF j = n + i
                     THEN (IF cs[i].op = "le" THEN 1
                           ELSE IF cs[i].op = "ge" THEN 0 - 1 ELSE 0)
                ELSE IF j = n + mm + i
                     THEN (IF cs[i].op = "le" THEN 0 ELSE 1)
                ELSE IF j = L THEN cs[i].rhs
                ELSE 0]
    IN  Only({[n      |-> n,
               mm     |-> mm,
               D      |-> 1,
               rows   |-> rs,
               basis  |-> Eager([i \in 1..mm |->
                              IF cs[i].op = "le" THEN n + i ELSE n + mm + i]),
               r1     |-> Eager([j \in 1..L |->
                              (IF j > n + mm /\ j < L /\ (j - n - mm) \in art
                               THEN 1 ELSE 0)
                              - SumOver(art, [i \in art |-> rs[i][j]])]),
               r2     |-> Eager([j \in 1..L |->
                              IF j <= n
                              THEN (IF m.sense = "max"
                                    THEN 0 - m.obj[j] ELSE m.obj[j])
                              ELSE 0]),
               status |-> "Running"]
              : rs \in {Eager([i \in 1..mm |-> Eager(row(i))])}})

InitTableau(m) == Only({TableauOf(m, cs) : cs \in {StdRows(m)}})

\* pivot on row r, column s: Bareiss' fraction-free update
PivotOn(t, r, s) ==
    LET L == t.n + 2 * t.mm + 1
    IN  Only({
          LET upd(v) ==
                Eager([j \in 1..L |->
                          (row[s] * v[j] - v[s] * row[j]) \div t.D])
          IN  [t EXCEPT !.D     = row[s],
                        !.rows  = Eager([i \in 1..t.mm |->
                                      IF i = r0 THEN row ELSE upd(t.rows[i])]),
                        !.basis = [t.basis EXCEPT ![r0] = s],
                        !.r1    = upd(t.r1),
                        !.r2    = upd(t.r2)]
          : r0 \in {r}, row \in {t.rows[r]}})

\* Bland's rule, by lowest or by highest index
Pick(S, rule) == IF rule = "first" THEN MinOf(S) ELSE MaxOf(S)

\* the columns that may enter the basis
Entering(t) ==
    {j \in 1..(t.n + t.mm) : t.r1[j] < 0 \/ (t.r1[j] = 0 /\ t.r2[j] < 0)}

\* the rows that attain the minimum ratio for column s
RatioRows(t, s) ==
    LET L   == t.n + 2 * t.mm + 1
        pos == {i \in 1..t.mm : t.rows[i][s] > 0}
    IN  {i \in pos : \A k \in pos :
            t.rows[i][L] * t.rows[k][s] <= t.rows[k][L] * t.rows[i][s]}

\* the row that leaves: among the minimum-ratio rows, by basic variable
Leaving(t, minr, rule) ==
    LET b == Pick({t.basis[i] : i \in minr}, rule)
    IN  CHOOSE i \in minr : t.basis[i] = b

\* one iteration: the final status, or the tableau after the pivot
SimplexStep(t, rule) ==
    IF Entering(t) = {}
    THEN [t EXCEPT !.status =
             IF t.r1[t.n + 2 * t.mm + 1] # 0 THEN "Infeasible" ELSE "Optimal"]
    ELSE Only({
             Only({
                 IF minr = {}
                 THEN [t EXCEPT !.status = "Unbounded"]
                 ELSE PivotOn(t, Leaving(t, minr, rule), s)
                 : minr \in {RatioRows(t, s)}})
             : s \in {Pick(Entering(t), rule)}})

RECURSIVE Simplex(_, _)
Simplex(t0, rule) ==
    Only({IF t.status # "Running" THEN t ELSE Simplex(SimplexStep(t, rule), rule)
          : t \in {t0}})

\* the varValue of every variable of the final tableau t, as numerators over
\* t.D
BasicValues(t) ==
    Eager([j \in 1..t.n |->
              IF \E i \in 1..t.mm : t.basis[i] = j
              THEN t.rows[CHOOSE i \in 1..t.mm : t.basis[i] = j]
                         [t.n + 2 * t.mm + 1]
              ELSE 0])

\* prob.solve: the status and the varValue of every variable (numerators
\* over the denominator den)
LpSolve(m, rule) ==
    Only({
        Only({[status |-> t.status,
               den    |-> t.D \div g,
               x      |-> Eager([j \in 1..t.n |-> BasicValues(t)[j] \div g])]
              : g \in {GCD(t.D, GCDSeq(BasicValues(t)))}})
        : t \in {Simplex(InitTableau(m), rule)}})

\* pulp.value(prob.objective): the objective expression at the varValues
LpValue(m, sol) == Dot(m.obj, sol.x)


-----------------------------------------------------------------------------
(* LinearProgrammingDemo *)

products == <<"A", "B", "C">>
profit == <<40, 30, 50>>
labor_req == <<2, 1, 3>>
material_req == <<1, 2, 1>>
labor_available == 100
material_available == 80

\* a variant whose material constraint repeats the labor coefficients
ProductionModelCopied(coefs) ==
    [sense |-> "max",
     obj   |-> [i \in 1..3 |-> coefs[i]],
     cons  |-> << [coef |-> [i \in 1..3 |-> labor_req[i]],
                   op |-> "le", rhs |-> labor_available],
                  [coef |-> [i \in 1..3 |-> labor_req[i]],
                   op |-> "le", rhs |-> material_available] >>,
     up    |-> NoUpBound]

\* a variant declared with LpMinimize
ProductionModelMinimize(coefs) ==
    [sense |-> "min",
     obj   |-> [i \in 1..3 |-> coefs[i]],
     cons  |-> << [coef |-> [i \in 1..3 |-> labor_req[i]],
                   op |-> "le", rhs |-> labor_available],
                  [coef |-> [i \in 1..3 |-> material_req[i]],
                   op |-> "le", rhs |-> material_available] >>,
     up    |-> NoUpBound]

\* the model of solve_production_planning (and, with other objective
\* coefficients, of every variant of sensitivity_analysis)
ProductionModel(coefs) ==
    [sense |-> "max",
     obj   |-> [i \in 1..3 |-> coefs[i]],
     cons  |-> << [coef |-> [i \in 1..3 |-> labor_req[i]],
                   op |-> "le", rhs |-> labor_available],
                  [coef |-> [i \in 1..3 |-> material_req[i]],
                   op |-> "le", rhs |-> material_available] >>,
     up    |-> NoUpBound]

\* the entry solve_production_planning stores; solution, max_profit,
\* labor_used and material_used are numerators over den
ProductionResult(rule) ==
    LET prob == ProductionModel(profit)
    IN  Only({
            [products           |-> products,
             den                |-> sol.den,
             solution           |-> sol.x,
             profit             |-> profit,
             max_profit         |-> LpValue(prob, sol),
             labor_used         |-> SumSeq([i \in 1..3 |-> labor_req[i] * sol.x[i]]),
             material_used      |-> SumSeq([i \in 1..3 |-> material_req[i] * sol.x[i]]),
             labor_available    |-> labor_available,
             material_available |-> material_available,
             labor_req          |-> labor_req,
             material_req       |-> material_req]
            : sol \in {LpSolve(prob, rule)}})

\* the utilization percentages solve_production_planning prints, used /
\* available * 100 as <<num, den>>
LaborUtilization(res) ==
    <<res.labor_used * 100, res.labor_available * res.den>>

MaterialUtilization(res) ==
    <<res.material_used * 100, res.material_available * res.den>>

ProductionSolved == [rule \in TieRules |-> ProductionResult(rule)]

solve_production_planning ==
    /\ MayCall("lp", "solve_production_planning")
    /\ MaySolve
    /\ Called("solve_production_planning")
    /\ lpResults' = ProductionSolved[tieBreak]
    /\ solveLog' = Append(solveLog, "production")
    /\ UNCHANGED <<demo, tieBreak, netResults, netGraphs, tpResults, tpLocals, sideVars>>

\* visualize_results without the guard on an empty self.results
lp_visualize_results_unguarded ==
    /\ MayCall("lp", "visualize_results")
    /\ Called("visualize_results")
    /\ chartWrites' = chartWrites + 1
    /\ UNCHANGED <<demo, tieBreak, lpResults, netResults, netGraphs, tpResults,
                   solveLog, tpLocals, saPc, variantLog, estimateLog>>

\* visualize_results: warns and returns when self.results is empty, else
\* draws the four charts and writes linear_programming_results.png
lp_visualize_results ==
    /\ MayCall("lp", "visualize_results")
    /\ Called("visualize_results")
    /\ chartWrites' = IF DOMAIN lpResults = {} THEN chartWrites ELSE chartWrites + 1
    /\ UNCHANGED <<demo, tieBreak, lpResults, netResults, netGraphs, tpResults,
                   solveLog, tpLocals, saPc, variantLog, estimateLog>>

\* the percentages by which sensitivity_analysis changes a profit
sensitivity_changes == <<-20, -10, 10, 20>>

\* change / 100 : the profits of a variant are numerators over this
PercentBase == 100

\* a variant whose outer loop is over the changes
VariantOfChangeMajor(k) ==
    [product |-> ((k - 1) % Len(products)) + 1,
     change  |-> sensitivity_changes[((k - 1) \div Len(products)) + 1]]

\* the k-th pass of a run: the outer loop is over the products, the inner
\* loop over the changes
VariantOf(k) ==
    [product |-> ((k - 1) \div Len(sensitivity_changes)) + 1,
     change  |-> sensitivity_changes[((k - 1) % Len(sensitivity_changes)) + 1]]

\* a variant with the change applied the wrong way round: 1 - change/100
ModifiedProfitsReversed(base_profits, i, change) ==
    [j \in 1..Len(base_profits) |->
        IF j = i THEN base_profits[i] * (PercentBase - change)
        ELSE base_profits[j] * PercentBase]

\* a variant that changes the profit of every product
ModifiedProfitsAllScaled(base_profits, i, change) ==
    [j \in 1..Len(base_profits) |-> base_profits[j] * (PercentBase + change)]

\* modified_profits = base_profits.copy(); modified_profits[i] =
\* base_profits[i] * (1 + change/100), in hundredths
ModifiedProfits(base_profits, i, change) ==
    [j \in 1..Len(base_profits) |->
        IF j = i THEN base_profits[i] * (PercentBase + change)
        ELSE base_profits[j] * PercentBase]

\* the model of one variant, rebuilt from self.results
SensitivityModel(res, i, change) ==
    [sense |-> "max",
     obj   |-> Eager([j \in 1..3 |-> ModifiedProfits(res.profit, i, change)[j]]),
     cons  |-> << [coef |-> Eager([j \in 1..3 |-> res.labor_req[j]]),
                   op   |-> "le",
                   rhs  |-> res.labor_available],
                  [coef |-> Eager([j \in 1..3 |-> res.material_req[j]]),
                   op   |-> "le",
                   rhs  |-> res.material_available] >>,
     up    |-> NoUpBound]

\* a variant that writes the new profit through base_profits, which is the
\* list held by self.results
ResultsAfterVariantAliased(res, i, change) ==
    [res EXCEPT !.profit =
        [j \in 1..Len(res.profit) |->
            IF j = i THEN (res.profit[i] * (PercentBase + change)) \div PercentBase
            ELSE res.profit[j]]]

\* self.results after a variant: only the copy of base_profits is written
ResultsAfterVariant(res, i, change) == res

\* what one pass of the inner loop solves and prints: new_max_profit is a
\* numerator over den
SolvedVariant(res, i, change, rule) ==
    Only({
        Only({[product        |-> res.products[i],
               change         |-> change,
               prob           |-> prob,
               den            |-> sol.den * PercentBase,
               new_max_profit |-> LpValue(prob, sol)]
              : sol \in {LpSolve(prob, rule)}})
        : prob \in {SensitivityModel(res, i, change)}})

\* sensitivity_analysis is called: it warns and returns when self.results is
\* empty, else it enters its loops
sensitivity_analysis ==
    /\ MayCall("lp", "sensitivity_analysis")
    /\ Called("sensitivity_analysis")
    /\ saPc' = IF DOMAIN lpResults = {} THEN 0 ELSE 1
    /\ UNCHANGED <<demo, tieBreak, lpResults, netResults, netGraphs, tpResults,
                   solveLog, tpLocals, variantLog, chartWrites,
                   estimateLog>>

\* one pass of the inner loop of sensitivity_analysis
sensitivity_variant ==
    /\ demo = "lp"
    /\ saPc > 0
    /\ \E v \in {VariantOf(saPc)} :
          /\ variantLog' = Append(variantLog,
                 SolvedVariant(lpResults, v.product, v.change, tieBreak))
          /\ lpResults' = ResultsAfterVariant(lpResults, v.product, v.change)
    /\ solveLog' = Append(solveLog, "sensitivity")
    /\ saPc' = IF saPc = Len(lpResults.products) * Len(sensitivity_changes)
               THEN 0 ELSE saPc + 1
    /\ UNCHANGED <<demo, tieBreak, netResults, netGraphs, tpResults, tpLocals,
                   mainPc, callLog, chartWrites, estimateLog>>

\* Lines 88-135 of solve_production_planning as a function of the data lines
\* 71-79 set: the model built from the data s ...
ProductionModelOf(s) ==
    [sense |-> "max",
     obj   |-> [i \in 1..3 |-> s.profit[i]],
     cons  |-> << [coef |-> [i \in 1..3 |-> s.labor_req[i]],
                   op |-> "le", rhs |-> s.labor_available],
                  [coef |-> [i \in 1..3 |-> s.material_req[i]],
                   op |-> "le", rhs |-> s.material_available] >>,
     up    |-> NoUpBound]

\* ... and the entry stored after prob.solve.  prob.status is not read: the
\* entry is built from the varValues the solver left, whatever the status
ProductionResultOf(s, rule) ==
    Only({
        [products           |-> products,
         den                |-> sol.den,
         solution           |-> sol.x,
         profit             |-> s.profit,
         max_profit         |-> LpValue(ProductionModelOf(s), sol),
         labor_used         |-> SumSeq([i \in 1..3 |-> s.labor_req[i] * sol.x[i]]),
         material_used      |-> SumSeq([i \in 1..3 |-> s.material_req[i] * sol.x[i]]),
         labor_available    |-> s.labor_available,
         material_available |-> s.material_available,
         labor_req          |-> s.labor_req,
         material_req       |-> s.material_req]
        : sol \in {LpSolve(ProductionModelOf(s), rule)}})

\* the data of the script, and data with which no plan is feasible (a
\* negative amount of a resource), the profit is unbounded (product C needs
\* no resource) or there is no labor at all
ProductionScenarios ==
    {[profit             |-> profit,
      labor_req          |-> <<labor_req[1], labor_req[2], c[1]>>,
      material_req       |-> <<material_req[1], material_req[2], c[2]>>,
      labor_available    |-> la,
      material_available |-> ma]
     : c \in {<<labor_req[3], material_req[3]>>, <<0, 0>>},
       la \in {labor_available, 0, 0 - labor_available},
       ma \in {material_available, 0 - material_available}}

ProductionSolvedOf ==
    [s \in ProductionScenarios |-> [rule \in TieRules |-> ProductionResultOf(s, rule)]]

\* the status prob.solve leaves in prob.status for the data s
ProductionStatusOf(s, rule) == LpSolve(ProductionModelOf(s), rule).status

\* the utilization prints of lines 120-121 divide by the available amounts
UtilizationPrints(s) == s.labor_available # 0 /\ s.material_available # 0

\* solve_production_planning on the data s: the model is solved, then the
\* utilization is printed, which raises ZeroDivisionError when an available
\* amount is 0, and only then the entry is stored
solve_production_scenario ==
    /\ MayCall("lp", "solve_production_planning")
    /\ MaySolve
    /\ mainPc' = mainPc
    /\ \E s \in ProductionScenarios :
           IF UtilizationPrints(s)
           THEN /\ callLog' = Append(callLog, "solve_production_planning")
                /\ lpResults' = ProductionSolvedOf[s][tieBreak]
           ELSE /\ callLog' = Append(callLog, "ZeroDivisionError")
                /\ lpResults' = lpResults
    /\ solveLog' = Append(solveLog, "production")
    /\ UNCHANGED <<demo, tieBreak, netResults, netGraphs, tpResults, tpLocals, sideVars>>

\* generate_report: warns and returns when self.results is empty, else
\* prints the report
lp_generate_report ==
    /\ MayCall("lp", "generate_report")
    /\ Called("generate_report")
    /\ UNCHANGED <<demo, tieBreak, lpResults, netResults, netGraphs, tpResults,
                   solveLog, tpLocals, sideVars>>

-----------------------------------------------------------------------------
(* NetworkFlowDemo: maximum flow *)

nodes == <<"S", "A", "B", "C", "D", "T">>

\* (start, end, capacity)
edges_capacity ==
    << <<"S", "A", 16>>, <<"S", "B", 13>>,
       <<"A", "B", 4>>,  <<"A", "C", 12>>,
       <<"B", "D", 14>>, <<"C", "B", 9>>,
       <<"C", "T", 20>>, <<"D", "C", 7>>,
       <<"D", "T", 4>> >>

\* G after the add_edge loop: every edge has its capacity and flow = 0
MaxFlowGraph ==
    [nodes |-> nodes,
     edges |-> [k \in 1..Len(edges_capacity) |->
                   [from     |-> edges_capacity[k][1],
                    to       |-> edges_capacity[k][2],
                    capacity |-> edges_capacity[k][3],
                    flow     |-> 0]]]

GraphEdges(G) == {<<G.edges[k].from, G.edges[k].to>> : k \in 1..Len(G.edges)}

\* G[start][end]['capacity']
Capacity(G, u, v) ==
    LET k == CHOOSE k \in 1..Len(G.edges) :
                 G.edges[k].from = u /\ G.edges[k].to = v
    IN  G.edges[k].capacity

NodeIndex(G, u) == CHOOSE k \in 1..Len(G.nodes) : G.nodes[k] = u

RangeOf(s) == {s[k] : k \in 1..Len(s)}

\* what can still be pushed from u to v: the unused capacity of (u, v) plus
\* the flow on (v, u) that can be cancelled
Residual(G, f, u, v) ==
    (IF <<u, v>> \in GraphEdges(G) THEN Capacity(G, u, v) - f[<<u, v>>] ELSE 0)
    + (IF <<v, u>> \in GraphEdges(G) THEN f[<<v, u>>] ELSE 0)

\* the simple paths of the residual graph that extend path to t
RECURSIVE AugmentingPaths(_, _, _, _)
AugmentingPaths(G, f, path, t) ==
    LET u == path[Len(path)]
    IN  IF u = t THEN {path}
        ELSE UNION {AugmentingPaths(G, f, Append(path, v), t) :
                       v \in {w \in RangeOf(G.nodes) \ RangeOf(path) :
                                 Residual(G, f, u, w) > 0}}

\* paths compare as words over the nodes in the order they were added
RECURSIVE PathKey(_, _)
PathKey(G, path) ==
    IF path = << >> THEN 0
    ELSE NodeIndex(G, path[Len(path)])
         + (Len(G.nodes) + 1) * PathKey(G, SubSeq(path, 1, Len(path) - 1))

PadKey(G, path) ==
    LET RECURSIVE Pow(_)
        Pow(k) == IF k = 0 THEN 1 ELSE (Len(G.nodes) + 1) * Pow(k - 1)
    IN  PathKey(G, path) * Pow(Len(G.nodes) - Len(path))

PickPath(G, paths, rule) ==
    LET key == Pick({PadKey(G, p) : p \in paths}, rule)
    IN  CHOOSE p \in paths : PadKey(G, p) = key

\* a variant that pushes the largest residual of the path, not the smallest
AugmentMost(G, f, path) ==
    LET hops  == {<<path[k], path[k + 1]>> : k \in 1..(Len(path) - 1)}
        delta == MaxOf({Residual(G, f, h[1], h[2]) : h \in hops})
    IN  [e \in GraphEdges(G) |-> IF e \in hops THEN f[e] + delta ELSE f[e]]

\* a variant that never cancels flow: a hop against an edge changes nothing
AugmentForwardOnly(G, f, path) ==
    LET hops  == {<<path[k], path[k + 1]>> : k \in 1..(Len(path) - 1)}
        delta == MinOf({Residual(G, f, h[1], h[2]) : h \in hops})
    IN  [e \in GraphEdges(G) |->
            IF e \in hops THEN MinOf({f[e] + delta, Capacity(G, e[1], e[2])})
            ELSE f[e]]

\* push as much as the path allows: cancel flow on a reverse edge first,
\* put the rest on the forward edge
Augment(G, f, path) ==
    LET hops  == {<<path[k], path[k + 1]>> : k \in 1..(Len(path) - 1)}
        delta == MinOf({Residual(G, f, h[1], h[2]) : h \in hops})
        back(u, v) ==
            IF <<v, u>> \in GraphEdges(G) THEN MinOf({delta, f[<<v, u>>]}) ELSE 0
    IN  [e \in GraphEdges(G) |->
            IF e \in hops THEN f[e] + (delta - back(e[1], e[2]))
            ELSE IF <<e[2], e[1]>> \in hops THEN f[e] - back(e[2], e[1])
            ELSE f[e]]

\* a variant that stops after one augmenting path
FordFulkersonOnce(G, f, s, t, rule) ==
    LET paths == AugmentingPaths(G, f, <<s>>, t)
    IN  IF paths = {} THEN f ELSE Augment(G, f, PickPath(G, paths, rule))

RECURSIVE FordFulkerson(_, _, _, _, _)
FordFulkerson(G, f, s, t, rule) ==
    LET paths == AugmentingPaths(G, f, <<s>>, t)
    IN  IF paths = {} THEN f
        ELSE FordFulkerson(G, Augment(G, f, PickPath(G, paths, rule)), s, t, rule)

\* nx.maximum_flow(G, s, t): the flow value and the flow on every edge
maximum_flow(G, s, t, rule) ==
    LET E == GraphEdges(G)
        f == FordFulkerson(G, [e \in E |-> 0], s, t, rule)
    IN  [value |-> SumOver({e \in E : e[1] = s}, f)
                   - SumOver({e \in E : e[2] = s}, f),
         flow_dict |-> f]

\* the loop over max_flow_dict with utilization = capacity / flow * 100
FlowDetailsInverted(G, f) ==
    LET all == [k \in 1..Len(G.edges) |->
                   LET u == G.edges[k].from
                       v == G.edges[k].to
                   IN  [from        |-> u,
                        to          |-> v,
                        flow        |-> f[<<u, v>>],
                        capacity    |-> Capacity(G, u, v),
                        utilization |-> <<Capacity(G, u, v) * 100, f[<<u, v>>]>>]]
    IN  SelectSeq(all, LAMBDA d : d.flow > 0)

\* the loop over max_flow_dict: the edges in the order they were added, those
\* with flow > 0 only; utilization = flow / capacity * 100 as <<num, den>>
FlowDetails(G, f) ==
    LET all == [k \in 1..Len(G.edges) |->
                   LET u == G.edges[k].from
                       v == G.edges[k].to
                   IN  [from        |-> u,
                        to          |-> v,
                        flow        |-> f[<<u, v>>],
                        capacity    |-> Capacity(G, u, v),
                        utilization |-> <<f[<<u, v>>] * 100, Capacity(G, u, v)>>]]
    IN  SelectSeq(all, LAMBDA d : d.flow > 0)

\* utilization > 100: only an edge loaded beyond its capacity
IsBottleneckOverloaded(d) == d.utilization[1] > 100 * d.utilization[2]

\* utilization <= 99.9
IsBottleneckBelow(d) == d.utilization[1] * 10 <= 999 * d.utilization[2]

\* utilization >= 99.9
IsBottleneck(d) == d.utilization[1] * 10 >= 999 * d.utilization[2]

MaxFlowResult(rule) ==
    LET G   == MaxFlowGraph
        mf  == maximum_flow(G, "S", "T", rule)
        det == FlowDetails(G, mf.flow_dict)
    IN  [graph            |-> G,
         max_flow_value   |-> mf.value,
         flow_dict        |-> mf.flow_dict,
         flow_details     |-> det,
         bottleneck_edges |-> SelectSeq(det, IsBottleneck)]

MaxFlowSolved == [rule \in TieRules |-> MaxFlowResult(rule)]

\* d[k] = v: the dict d with key k set to v
\* self.results = {k: v}: the assignment replaces the dictionary
DictSetOnly(d, k, v) == [x \in {k} |-> v]

DictSet(d, k, v) == [x \in DOMAIN d \cup {k} |-> IF x = k THEN v ELSE d[x]]

solve_max_flow_problem ==
    /\ MayCall("net", "solve_max_flow_problem")
    /\ MaySolve
    /\ Called("solve_max_flow_problem")
    /\ netResults' = DictSet(netResults, "max_flow", MaxFlowSolved[tieBreak])
    /\ netGraphs' = DictSet(netGraphs, "max_flow", MaxFlowGraph)
    /\ solveLog' = Append(solveLog, "max_flow")
    /\ UNCHANGED <<demo, tieBreak, lpResults, tpResults, tpLocals, sideVars>>

-----------------------------------------------------------------------------
(* NetworkFlowDemo: minimum-cost flow *)

mcf_warehouses == <<"W1", "W2">>
mcf_customers == <<"CA", "CB", "CC">>
mcf_supply == [w \in {"W1", "W2"} |-> IF w = "W1" THEN 100 ELSE 150]
mcf_demand == [c \in {"CA", "CB", "CC"} |-> IF c = "CB" THEN 90 ELSE 80]

\* (start, end, unit cost, capacity)
transport_data ==
    << <<"W1", "CA", 4, 60>>, <<"W1", "CB", 6, 70>>, <<"W1", "CC", 8, 50>>,
       <<"W2", "CA", 5, 50>>, <<"W2", "CB", 3, 80>>, <<"W2", "CC", 7, 60>> >>

\* a variant whose variables have no upBound
MinCostFlowModelNoCapacity ==
    LET n == Len(transport_data)
    IN  [sense |-> "min",
         obj   |-> [k \in 1..n |-> transport_data[k][3]],
         cons  |-> [i \in 1..Len(mcf_warehouses) |->
                       [coef |-> [k \in 1..n |->
                                     IF transport_data[k][1] = mcf_warehouses[i]
                                     THEN 1 ELSE 0],
                        op   |-> "le",
                        rhs  |-> mcf_supply[mcf_warehouses[i]]]]
                   \o
                   [j \in 1..Len(mcf_customers) |->
                       [coef |-> [k \in 1..n |->
                                     IF transport_data[k][2] = mcf_customers[j]
                                     THEN 1 ELSE 0],
                        op   |-> "ge",
                        rhs  |-> mcf_demand[mcf_customers[j]]]],
         up    |-> NoUpBound]

\* variable k is x[start, end] of transport_data[k], 0 <= x <= capacity
MinCostFlowModel ==
    LET n == Len(transport_data)
    IN  [sense |-> "min",
         obj   |-> [k \in 1..n |-> transport_data[k][3]],
         cons  |-> [i \in 1..Len(mcf_warehouses) |->
                       [coef |-> [k \in 1..n |->
                                     IF transport_data[k][1] = mcf_warehouses[i]
                                     THEN 1 ELSE 0],
                        op   |-> "le",
                        rhs  |-> mcf_supply[mcf_warehouses[i]]]]
                   \o
                   [j \in 1..Len(mcf_customers) |->
                       [coef |-> [k \in 1..n |->
                                     IF transport_data[k][2] = mcf_customers[j]
                                     THEN 1 ELSE 0],
                        op   |-> "ge",
                        rhs  |-> mcf_demand[mcf_customers[j]]]],
         up    |-> [k \in 1..n |-> transport_data[k][4]]]

\* flows, min_cost and total_cost are numerators over den; utilization =
\* flow / capacity * 100 is <<num, den>>
MinCostFlowResult(rule) ==
    LET prob == MinCostFlowModel
        n    == Len(transport_data)
    IN  Only({
          LET used == SelectSeq([k \in 1..n |-> k], LAMBDA k : sol.x[k] > 0)
          IN  [warehouses     |-> mcf_warehouses,
           customers      |-> mcf_customers,
           supply         |-> mcf_supply,
           demand         |-> mcf_demand,
           transport_data |-> transport_data,
           den            |-> sol.den,
           min_cost       |-> LpValue(prob, sol),
           flow_solution  |->
               [e \in {<<transport_data[k][1], transport_data[k][2]>> :
                          k \in RangeOf(used)} |->
                   sol.x[CHOOSE k \in 1..n :
                             <<transport_data[k][1], transport_data[k][2]>> = e]],
           cost_details   |->
               [r \in 1..Len(used) |->
                   LET k == used[r]
                   IN  [from        |-> transport_data[k][1],
                        to          |-> transport_data[k][2],
                        flow        |-> sol.x[k],
                        unit_cost   |-> transport_data[k][3],
                        total_cost  |-> sol.x[k] * transport_data[k][3],
                        capacity    |-> transport_data[k][4],
                        utilization |-> <<sol.x[k] * 100,
                                          transport_data[k][4] * sol.den>>]]]
          : sol \in {LpSolve(prob, rule)}})

MinCostFlowSolved == [rule \in TieRules |-> MinCostFlowResult(rule)]

solve_min_cost_flow_problem ==
    /\ MayCall("net", "solve_min_cost_flow_problem")
    /\ MaySolve
    /\ Called("solve_min_cost_flow_problem")
    /\ netResults' = DictSet(netResults, "min_cost_flow",
                             MinCostFlowSolved[tieBreak])
    /\ solveLog' = Append(solveLog, "min_cost_flow")
    /\ UNCHANGED <<demo, tieBreak, lpResults, netGraphs, tpResults, tpLocals, sideVars>>

-----------------------------------------------------------------------------
(* NetworkFlowDemo: shortest path *)

cities == <<"Start", "CityA", "CityB", "CityC", "CityD", "End">>

\* (city1, city2, distance): roads run both ways
roads ==
    << <<"Start", "CityA", 10>>, <<"Start", "CityB", 15>>,
       <<"CityA", "CityC", 12>>, <<"CityA", "CityD", 15>>,
       <<"CityB", "CityC", 8>>,  <<"CityB", "CityD", 7>>,
       <<"CityC", "End", 10>>,   <<"CityD", "End", 12>>,
       <<"CityA", "CityB", 6>>,  <<"CityC", "CityD", 5>> >>

ShortestPathGraph ==
    [nodes |-> cities,
     edges |-> [k \in 1..Len(roads) |->
                   [from   |-> roads[k][1],
                    to     |-> roads[k][2],
                    weight |-> roads[k][3]]]]

Adjacent(G, u, v) ==
    \E k \in 1..Len(G.edges) : {G.edges[k].from, G.edges[k].to} = {u, v}

\* G[start][end]['weight']
Weight(G, u, v) ==
    LET k == CHOOSE k \in 1..Len(G.edges) :
                 {G.edges[k].from, G.edges[k].to} = {u, v}
    IN  G.edges[k].weight

\* a variant that settles the open nodes in node order, whatever their
\* tentative distance (a queue in place of the priority queue)
SettleNextUnordered(G, st, open, rule) ==
    G.nodes[Pick({NodeIndex(G, v) : v \in open}, rule)]

\* the open node settled next: one of least tentative distance
SettleNext(G, st, open, rule) ==
    LET dmin == MinOf({st.dist[v] : v \in open})
    IN  G.nodes[Pick({NodeIndex(G, v) : v \in {w \in open : st.dist[w] = dmin}},
                     rule)]

\* Dijkstra: st.dist the tentative distances of the nodes reached, st.pred
\* the node each was reached from, st.done the settled nodes
RECURSIVE Dijkstra(_, _, _, _)
Dijkstra(G, st, target, rule) ==
    LET open == DOMAIN st.dist \ st.done
    IN  IF open = {} \/ target \in st.done THEN st
        ELSE
          LET u    == SettleNext(G, st, open, rule)
              better(v) ==
                  /\ v \notin st.done
                  /\ Adjacent(G, u, v)
                  /\ \/ v \notin DOMAIN st.dist
                     \/ st.dist[u] + Weight(G, u, v) < st.dist[v]
                     \/ /\ rule = "last"
                        /\ st.dist[u] + Weight(G, u, v) = st.dist[v]
              upd  == {v \in RangeOf(G.nodes) : better(v)}
          IN  Dijkstra(G,
                       [dist |-> [v \in DOMAIN st.dist \cup upd |->
                                     IF v \in upd
                                     THEN st.dist[u] + Weight(G, u, v)
                                     ELSE st.dist[v]],
                        pred |-> [v \in DOMAIN st.pred \cup upd |->
                                     IF v \in upd THEN u ELSE st.pred[v]],
                        done |-> st.done \cup {u}],
                       target, rule)

DijkstraFrom(G, source, target, rule) ==
    Dijkstra(G,
             [dist |-> [v \in {source} |-> 0],
              pred |-> [v \in {} |-> v],
              done |-> {}],
             target, rule)

RECURSIVE PathTo(_, _, _)
PathTo(pred, source, v) ==
    IF v = source THEN <<v>> ELSE Append(PathTo(pred, source, pred[v]), v)

\* nx.shortest_path(G, source, target, weight='weight')
shortest_path(G, source, target, rule) ==
    PathTo(DijkstraFrom(G, source, target, rule).pred, source, target)

\* a variant called without weight='weight': the number of hops
shortest_path_length_unweighted(G, source, target, rule) ==
    Len(shortest_path(G, source, target, rule)) - 1

\* nx.shortest_path_length(G, source, target, weight='weight')
shortest_path_length(G, source, target, rule) ==
    DijkstraFrom(G, source, target, rule).dist[target]

\* the loop that walks the returned path and accumulates total_distance
RECURSIVE PathDetails(_, _, _)
PathDetails(G, path, k) ==
    IF k = 0 THEN << >>
    ELSE LET before == PathDetails(G, path, k - 1)
             d      == Weight(G, path[k], path[k + 1])
         IN  Append(before,
                    [from       |-> path[k],
                     to         |-> path[k + 1],
                     distance   |-> d,
                     cumulative |-> (IF k = 1 THEN 0
                                     ELSE before[k - 1].cumulative) + d])

ShortestPathResult(rule) ==
    LET G    == ShortestPathGraph
        path == shortest_path(G, "Start", "End", rule)
    IN  [graph             |-> G,
         cities            |-> cities,
         roads             |-> roads,
         shortest_path     |-> path,
         shortest_distance |-> shortest_path_length(G, "Start", "End", rule),
         path_details      |-> PathDetails(G, path, Len(path) - 1)]

ShortestPathSolved == [rule \in TieRules |-> ShortestPathResult(rule)]

solve_shortest_path_problem ==
    /\ MayCall("net", "solve_shortest_path_problem")
    /\ MaySolve
    /\ Called("solve_shortest_path_problem")
    /\ netResults' = DictSet(netResults, "shortest_path",
                             ShortestPathSolved[tieBreak])
    /\ netGraphs' = DictSet(netGraphs, "shortest_path", ShortestPathGraph)
    /\ solveLog' = Append(solveLog, "shortest_path")
    /\ UNCHANGED <<demo, tieBreak, lpResults, tpResults, tpLocals, sideVars>>

-----------------------------------------------------------------------------
(* TransportationProblemDemo: basic transportation problem *)

basic_factories == <<"FA", "FB", "FC">>
basic_warehouses == <<"W1", "W2", "W3", "W4">>
basic_supply == <<300, 400, 500>>
basic_demand == <<250, 350, 400, 200>>
basic_cost_matrix ==
    << <<8, 6, 10, 9>>,
       <<9, 12, 13, 7>>,
       <<14, 9, 16, 5>> >>

\* np.zeros(3): the column the dummy warehouse gets
Zeros3 == [i \in 1..3 |-> 0]

\* a variant that gives the dummy node the larger total, not the difference
BalanceStepNoSubtract(loc) ==
    IF SumSeq(loc.supply) # SumSeq(loc.demand)
    THEN IF SumSeq(loc.supply) > SumSeq(loc.demand)
         THEN [loc EXCEPT
                 !.demand = Append(loc.demand, SumSeq(loc.supply)),
                 !.warehouses = Append(loc.warehouses, "DummyWarehouse"),
                 !.cost_matrix = [i \in 1..Len(loc.cost_matrix) |->
                                     Append(loc.cost_matrix[i], Zeros3[i])]]
         ELSE [loc EXCEPT
                 !.supply = Append(loc.supply, SumSeq(loc.demand)),
                 !.factories = Append(loc.factories, "DummyFactory"),
                 !.cost_matrix = Append(loc.cost_matrix,
                                        [j \in 1..Len(loc.warehouses) |-> 0])]
    ELSE loc

\* a variant that, on a surplus, adds an idle dummy factory as well as the
\* dummy warehouse
BalanceStepBothSides(loc) ==
    IF SumSeq(loc.supply) # SumSeq(loc.demand)
    THEN IF SumSeq(loc.supply) > SumSeq(loc.demand)
         THEN [loc EXCEPT
                 !.demand = Append(loc.demand,
                                   SumSeq(loc.supply) - SumSeq(loc.demand)),
                 !.warehouses = Append(loc.warehouses, "DummyWarehouse"),
                 !.supply = Append(loc.supply, 0),
                 !.factories = Append(loc.factories, "DummyFactory"),
                 !.cost_matrix =
                     Append([i \in 1..Len(loc.cost_matrix) |->
                                Append(loc.cost_matrix[i], Zeros3[i])],
                            [j \in 1..(Len(loc.warehouses) + 1) |-> 0])]
         ELSE [loc EXCEPT
                 !.supply = Append(loc.supply,
                                   SumSeq(loc.demand) - SumSeq(loc.supply)),
                 !.factories = Append(loc.factories, "DummyFactory"),
                 !.cost_matrix = Append(loc.cost_matrix,
                                        [j \in 1..Len(loc.warehouses) |-> 0])]
    ELSE loc

\* the balancing step: loc holds the locals factories, warehouses, supply,
\* demand and cost_matrix
BalanceStep(loc) ==
    IF SumSeq(loc.supply) # SumSeq(loc.demand)
    THEN IF SumSeq(loc.supply) > SumSeq(loc.demand)
         THEN [loc EXCEPT
                 !.demand = Append(loc.demand,
                                   SumSeq(loc.supply) - SumSeq(loc.demand)),
                 !.warehouses = Append(loc.warehouses, "DummyWarehouse"),
                 !.cost_matrix = [i \in 1..Len(loc.cost_matrix) |->
                                     Append(loc.cost_matrix[i], Zeros3[i])]]
         ELSE [loc EXCEPT
                 !.supply = Append(loc.supply,
                                   SumSeq(loc.demand) - SumSeq(loc.supply)),
                 !.factories = Append(loc.factories, "DummyFactory"),
                 !.cost_matrix = Append(loc.cost_matrix,
                                        [j \in 1..Len(loc.warehouses) |-> 0])]
    ELSE loc

\* a variant whose objective reads each row of the cost matrix backwards
BasicModelCostReversed(loc) ==
    LET F == Len(loc.factories)
        W == Len(loc.warehouses)
        var(i, j) == (i - 1) * W + j
    IN  [sense |-> "min",
         obj   |-> [k \in 1..(F * W) |->
                       loc.cost_matrix[((k - 1) \div W) + 1][W - ((k - 1) % W)]],
         cons  |-> [i \in 1..F |->
                       [coef |-> [k \in 1..(F * W) |->
                                     IF \E j \in 1..W : k = var(i, j) THEN 1 ELSE 0],
                        op   |-> "eq",
                        rhs  |-> loc.supply[i]]]
                   \o
                   [j \in 1..W |->
                       [coef |-> [k \in 1..(F * W) |->
                                     IF \E i \in 1..F : k = var(i, j) THEN 1 ELSE 0],
                        op   |-> "eq",
                        rhs  |-> loc.demand[j]]],
         up    |-> NoUpBound]

\* variable (i - 1) * W + j is x[i, j]
BasicModel(loc) ==
    LET F == Len(loc.factories)
        W == Len(loc.warehouses)
        var(i, j) == (i - 1) * W + j
    IN  [sense |-> "min",
         obj   |-> [k \in 1..(F * W) |->
                       loc.cost_matrix[((k - 1) \div W) + 1][((k - 1) % W) + 1]],
         cons  |-> [i \in 1..F |->
                       [coef |-> [k \in 1..(F * W) |->
                                     IF \E j \in 1..W : k = var(i, j) THEN 1 ELSE 0],
                        op   |-> "eq",
                        rhs  |-> loc.supply[i]]]
                   \o
                   [j \in 1..W |->
                       [coef |-> [k \in 1..(F * W) |->
                                     IF \E i \in 1..F : k = var(i, j) THEN 1 ELSE 0],
                        op   |-> "eq",
                        rhs  |-> loc.demand[j]]],
         up    |-> NoUpBound]

\* the entry solve_basic_transportation stores for the locals loc at its
\* start; solution_matrix, min_cost, quantity and total_cost are numerators
\* over den
BasicResult(loc, rule) ==
    Only({
      Only({
        LET F    == Len(bal.factories)
            W    == Len(bal.warehouses)
            sm   == [i \in 1..F |-> [j \in 1..W |-> sol.x[(i - 1) * W + j]]]
            used == SelectSeq([k \in 1..(F * W) |-> k], LAMBDA k : sol.x[k] > 0)
        IN  [factories           |-> bal.factories,
             warehouses          |-> bal.warehouses,
             original_warehouses |-> loc.warehouses,
             supply              |-> bal.supply,
             demand              |-> bal.demand,
             original_demand     |-> loc.demand,
             cost_matrix         |-> bal.cost_matrix,
             den                 |-> sol.den,
             solution_matrix     |-> sm,
             min_cost            |-> LpValue(BasicModel(bal), sol),
             route_details       |->
                 [r \in 1..Len(used) |->
                     LET i == ((used[r] - 1) \div W) + 1
                         j == ((used[r] - 1) % W) + 1
                     IN  [from       |-> bal.factories[i],
                          to         |-> bal.warehouses[j],
                          quantity   |-> sm[i][j],
                          unit_cost  |-> bal.cost_matrix[i][j],
                          total_cost |-> sm[i][j] * bal.cost_matrix[i][j]]]]
        : sol \in {LpSolve(BasicModel(bal), rule)}})
      : bal \in {BalanceStep(loc)}})

\* the locals as lines 64-79 set them
BasicLocals ==
    [factories   |-> basic_factories,
     warehouses  |-> basic_warehouses,
     supply      |-> basic_supply,
     demand      |-> basic_demand,
     cost_matrix |-> basic_cost_matrix]

BasicSolved == [rule \in TieRules |-> BasicResult(BasicLocals, rule)]

solve_basic_transportation ==
    /\ MayCall("tp", "solve_basic_transportation")
    /\ MaySolve
    /\ Called("solve_basic_transportation")
    /\ tpResults' = DictSet(tpResults, "basic", BasicSolved[tieBreak])
    /\ solveLog' = Append(solveLog, "basic")
    /\ UNCHANGED <<demo, tieBreak, lpResults, netResults, netGraphs, tpLocals, sideVars>>

\* the data of the script, and data with a negative supply or demand, or
\* with a cost matrix that lacks a row or a column
TransportScenarios ==
    {[factories   |-> basic_factories,
      warehouses  |-> basic_warehouses,
      supply      |-> s,
      demand      |-> d,
      cost_matrix |-> c]
     : s \in {basic_supply,
              <<0 - basic_supply[1], basic_supply[2], basic_supply[3]>>},
       d \in {basic_demand,
              <<basic_demand[1], basic_demand[2], basic_demand[3],
                0 - basic_demand[4]>>},
       c \in {basic_cost_matrix,
              SubSeq(basic_cost_matrix, 1, 2),
              [i \in 1..3 |-> SubSeq(basic_cost_matrix[i], 1, 3)]}}

\* pd.DataFrame(cost_matrix, index=factories, columns=warehouses) accepts
\* the matrix: one row per factory, one column per warehouse
ShapeFits(loc) ==
    /\ Len(loc.cost_matrix) = Len(loc.factories)
    /\ \A i \in 1..Len(loc.cost_matrix) :
           Len(loc.cost_matrix[i]) = Len(loc.warehouses)

BasicSolvedOf ==
    [loc \in {l \in TransportScenarios : ShapeFits(l)} |->
        [rule \in TieRules |-> BasicResult(loc, rule)]]

\* solve_basic_transportation as a function of the data lines 64-79 set.
\* No value is checked; printing the cost table raises ValueError when the
\* matrix does not fit the names, and otherwise the model is balanced,
\* built, solved and stored
solve_basic_scenario ==
    /\ MayCall("tp", "solve_basic_transportation")
    /\ MaySolve
    /\ mainPc' = mainPc
    /\ \E loc \in TransportScenarios :
           IF ShapeFits(loc)
           THEN /\ callLog' = Append(callLog, "solve_basic_transportation")
                /\ tpResults' = DictSet(tpResults, "basic",
                                        BasicSolvedOf[loc][tieBreak])
                /\ solveLog' = Append(solveLog, "basic")
           ELSE /\ callLog' = Append(callLog, "ValueError")
                /\ UNCHANGED <<tpResults, solveLog>>
    /\ UNCHANGED <<demo, tieBreak, lpResults, netResults, netGraphs, tpLocals, sideVars>>

\* the data of the script, and data with 100 more or 100 less supply at the
\* third factory, so that a dummy warehouse or a dummy factory is needed
UnbalancedLocals ==
    {[factories   |-> basic_factories,
      warehouses  |-> basic_warehouses,
      supply      |-> [basic_supply EXCEPT ![3] = basic_supply[3] + q],
      demand      |-> basic_demand,
      cost_matrix |-> basic_cost_matrix]
     : q \in {-100, 0, 100}}

BasicSolvedOn ==
    [loc \in UnbalancedLocals |-> [rule \in TieRules |-> BasicResult(loc, rule)]]

\* the values lines 64-79 give the locals in this run
DataLocals ==
    [factories   |-> factories,
     warehouses  |-> warehouses,
     supply      |-> supply,
     demand      |-> demand,
     cost_matrix |-> cost_matrix]

\* the method with the lists kept between calls: the dummy node that the
\* balancing step appends stays in them
solve_basic_on_data_kept ==
    /\ MayCall("tp", "solve_basic_transportation")
    /\ MaySolve
    /\ Called("solve_basic_transportation")
    /\ \E res \in {BasicResult(DataLocals, tieBreak)} :
           /\ tpResults' = DictSet(tpResults, "basic", res)
           /\ supply' = res.supply
           /\ demand' = res.demand
           /\ factories' = res.factories
           /\ warehouses' = res.warehouses
           /\ cost_matrix' = res.cost_matrix
    /\ solveLog' = Append(solveLog, "basic")
    /\ UNCHANGED <<demo, tieBreak, lpResults, netResults, netGraphs, balanced,
                   sideVars>>

\* solve_basic_transportation on the data of this run: every call sets its
\* locals anew from the literals, balances, builds, solves and stores
solve_basic_on_data ==
    /\ MayCall("tp", "solve_basic_transportation")
    /\ MaySolve
    /\ Called("solve_basic_transportation")
    /\ tpResults' = DictSet(tpResults, "basic", BasicSolvedOn[DataLocals][tieBreak])
    /\ solveLog' = Append(solveLog, "basic")
    /\ UNCHANGED <<demo, tieBreak, lpResults, netResults, netGraphs, tpLocals, sideVars>>

\* the balancing step alone, on the locals as they stand
balance_step ==
    /\ demo = "balance"
    /\ ~balanced
    /\ LET bal == BalanceStep([factories   |-> factories,
                               warehouses  |-> warehouses,
                               supply      |-> supply,
                               demand      |-> demand,
                               cost_matrix |-> cost_matrix])
       IN  /\ supply' = bal.supply
           /\ demand' = bal.demand
           /\ factories' = bal.factories
           /\ warehouses' = bal.warehouses
           /\ cost_matrix' = bal.cost_matrix
    /\ balanced' = TRUE
    /\ UNCHANGED <<demo, tieBreak, lpResults, netResults, netGraphs, tpResults,
                   solveLog, mainPc, callLog, sideVars>>

-----------------------------------------------------------------------------
(* TransportationProblemDemo: multi-product transportation problem *)

multi_factories == <<"FX", "FY">>
multi_products == <<"P1", "P2">>
markets == <<"M1", "M2", "M3">>

\* [factory][product]
supply_matrix == << <<200, 150>>, <<180, 220>> >>

\* [market][product]
demand_matrix == << <<120, 100>>, <<140, 130>>, <<120, 140>> >>

\* [factory][product][market]
cost_tensor ==
    << << <<5, 7, 6>>, <<6, 8, 7>> >>,
       << <<8, 6, 9>>, <<7, 5, 8>> >> >>

\* the number of the variable x[i, p, j]
MultiVar(i, p, j) ==
    ((i - 1) * Len(multi_products) + (p - 1)) * Len(markets) + j

\* the (i, p, j) of variable k
MultiKey(k) ==
    CHOOSE t \in (1..Len(multi_factories)) \X (1..Len(multi_products))
                 \X (1..Len(markets)) : MultiVar(t[1], t[2], t[3]) = k

\* a variant in which the products of a factory share its total supply
MultiModelSharedSupply ==
    LET F == Len(multi_factories)
        P == Len(multi_products)
        M == Len(markets)
        n == F * P * M
    IN  [sense |-> "min",
         obj   |-> [k \in 1..n |->
                       cost_tensor[MultiKey(k)[1]][MultiKey(k)[2]][MultiKey(k)[3]]],
         cons  |-> [i \in 1..F |->
                       [coef |-> [k \in 1..n |->
                                     IF MultiKey(k)[1] = i THEN 1 ELSE 0],
                        op   |-> "le",
                        rhs  |-> SumSeq(supply_matrix[i])]]
                   \o
                   [r \in 1..(M * P) |->
                       LET j == ((r - 1) \div P) + 1
                           p == ((r - 1) % P) + 1
                       IN  [coef |-> [k \in 1..n |->
                                         IF \E i \in 1..F : k = MultiVar(i, p, j)
                                         THEN 1 ELSE 0],
                            op   |-> "ge",
                            rhs  |-> demand_matrix[j][p]]],
         up    |-> NoUpBound]

\* a variant whose demand constraints add up the products a market receives
MultiModelMixed ==
    LET F == Len(multi_factories)
        P == Len(multi_products)
        M == Len(markets)
        n == F * P * M
    IN  [sense |-> "min",
         obj   |-> [k \in 1..n |->
                       cost_tensor[MultiKey(k)[1]][MultiKey(k)[2]][MultiKey(k)[3]]],
         cons  |-> [r \in 1..(F * P) |->
                       LET i == ((r - 1) \div P) + 1
                           p == ((r - 1) % P) + 1
                       IN  [coef |-> [k \in 1..n |->
                                         IF \E j \in 1..M : k = MultiVar(i, p, j)
                                         THEN 1 ELSE 0],
                            op   |-> "le",
                            rhs  |-> supply_matrix[i][p]]]
                   \o
                   [r \in 1..(M * P) |->
                       LET j == ((r - 1) \div P) + 1
                           p == ((r - 1) % P) + 1
                       IN  [coef |-> [k \in 1..n |->
                                         IF \E i \in 1..F, q \in 1..P :
                                                k = MultiVar(i, q, j)
                                         THEN 1 ELSE 0],
                            op   |-> "ge",
                            rhs  |-> demand_matrix[j][p]]],
         up    |-> NoUpBound]

MultiModel ==
    LET F == Len(multi_factories)
        P == Len(multi_products)
        M == Len(markets)
        n == F * P * M
    IN  [sense |-> "min",
         obj   |-> [k \in 1..n |->
                       cost_tensor[MultiKey(k)[1]][MultiKey(k)[2]][MultiKey(k)[3]]],
         cons  |-> [r \in 1..(F * P) |->
                       LET i == ((r - 1) \div P) + 1
                           p == ((r - 1) % P) + 1
                       IN  [coef |-> [k \in 1..n |->
                                         IF \E j \in 1..M : k = MultiVar(i, p, j)
                                         THEN 1 ELSE 0],
                            op   |-> "le",
                            rhs  |-> supply_matrix[i][p]]]
                   \o
                   [r \in 1..(M * P) |->
                       LET j == ((r - 1) \div P) + 1
                           p == ((r - 1) % P) + 1
                       IN  [coef |-> [k \in 1..n |->
                                         IF \E i \in 1..F : k = MultiVar(i, p, j)
                                         THEN 1 ELSE 0],
                            op   |-> "ge",
                            rhs  |-> demand_matrix[j][p]]],
         up    |-> NoUpBound]

\* quantity, min_cost and total_cost are numerators over den; plan is the
\* varValue of every x[i, p, j], from which route_details is read
MultiResult(rule) ==
    LET prob == MultiModel
        n    == Len(prob.obj)
    IN  Only({
          LET used == SelectSeq([k \in 1..n |-> k], LAMBDA k : sol.x[k] > 0)
          IN  [factories     |-> multi_factories,
           products      |-> multi_products,
           markets       |-> markets,
           supply_matrix |-> supply_matrix,
           demand_matrix |-> demand_matrix,
           cost_tensor   |-> cost_tensor,
           den           |-> sol.den,
           min_cost      |-> LpValue(prob, sol),
           route_details |->
               [r \in 1..Len(used) |->
                   LET t == MultiKey(used[r])
                   IN  [factory    |-> multi_factories[t[1]],
                        product    |-> multi_products[t[2]],
                        market     |-> markets[t[3]],
                        quantity   |-> sol.x[used[r]],
                        unit_cost  |-> cost_tensor[t[1]][t[2]][t[3]],
                        total_cost |-> sol.x[used[r]]
                                       * cost_tensor[t[1]][t[2]][t[3]]]]]
          : sol \in {LpSolve(prob, rule)}})

MultiSolved == [rule \in TieRules |-> MultiResult(rule)]

solve_multi_product_transportation ==
    /\ MayCall("tp", "solve_multi_product_transportation")
    /\ MaySolve
    /\ Called("solve_multi_product_transportation")
    /\ tpResults' = DictSet(tpResults, "multi_product", MultiSolved[tieBreak])
    /\ solveLog' = Append(solveLog, "multi_product")
    /\ UNCHANGED <<demo, tieBreak, lpResults, netResults, netGraphs, tpLocals, sideVars>>

-----------------------------------------------------------------------------
(* NetworkFlowDemo and TransportationProblemDemo: charts and reports *)

\* the call ends in the exception e, which also ends main()
Raised(e) ==
    /\ callLog' = Append(callLog, e)
    /\ mainPc' = IF mainPc = 0 THEN 0 ELSE Len(MainSteps(demo)) + 1

\* the blocks of visualize_results that read self.results, as <<the key the
\* block's `if ... in self.results` tests, the key it looks up>>: panels 1
\* and 2, panel 3, panel 4, the three metrics of panel 5, panel 6
VisualizeBlocks ==
    << <<"max_flow", "max_flow">>,
       <<"min_cost_flow", "min_cost_flow">>,
       <<"shortest_path", "shortest_path">>,
       <<"max_flow", "max_flow">>,
       <<"min_cost_flow", "min_cost_flow">>,
       <<"shortest_path", "shortest_path">>,
       <<"max_flow", "max_flow">> >>

\* the blocks of generate_report that read self.results; each binds its
\* local max_flow_data, mcf_data or sp_data
ReportBlocks ==
    << <<"max_flow", "max_flow">>,
       <<"min_cost_flow", "min_cost_flow">>,
       <<"shortest_path", "shortest_path">> >>

\* the keys of self.results looked up by the blocks whose test passes
Lookups(blocks, keys) ==
    {blocks[n][2] : n \in {h \in 1..Len(blocks) : blocks[h][1] \in keys}}

\* the local variable generate_report binds in the block of the key k
LocalOf(k) ==
    CASE k = "max_flow"      -> "max_flow_data"
      [] k = "min_cost_flow" -> "mcf_data"
      [] k = "shortest_path" -> "sp_data"

\* the locals generate_report has bound when it reaches its advice section
BoundLocals(keys) == {LocalOf(k) : k \in Lookups(ReportBlocks, keys)}

\* the advice section reading max_flow_data['bottleneck_edges'] whether or
\* not max flow was solved
AdviceLocalsUnguarded(keys) == {"max_flow_data"}

\* the locals the advice section reads: max_flow_data, and only when
\* 'max_flow' in self.results (the `and` does not evaluate its right side
\* otherwise)
AdviceLocals(keys) == IF "max_flow" \in keys THEN {"max_flow_data"} ELSE {}

\* visualize_results: warns and returns when self.results is empty, else
\* draws the panels of the solved problems and writes
\* network_flow_results.png
net_visualize_results ==
    /\ MayCall("net", "visualize_results")
    /\ IF Lookups(VisualizeBlocks, DOMAIN netResults) \subseteq DOMAIN netResults
       THEN /\ Called("visualize_results")
            /\ chartWrites' = IF DOMAIN netResults = {} THEN chartWrites
                              ELSE chartWrites + 1
       ELSE /\ Raised("KeyError")
            /\ chartWrites' = chartWrites
    /\ UNCHANGED <<demo, tieBreak, lpResults, netResults, netGraphs, tpResults,
                   solveLog, tpLocals, saPc, variantLog, estimateLog>>

\* network_analysis: warns and returns when self.graphs is empty, else has
\* the graph library compute density and connectivity of every stored graph
\* (and diameter and average path length of the road graph) and prints them
network_analysis ==
    /\ MayCall("net", "network_analysis")
    /\ Called("network_analysis")
    /\ solveLog' = IF DOMAIN netGraphs = {} THEN solveLog
                   ELSE Append(solveLog, "metrics")
    /\ UNCHANGED <<demo, tieBreak, lpResults, netResults, netGraphs, tpResults,
                   tpLocals, sideVars>>

\* generate_report: warns and returns when self.results is empty, else
\* prints the section of every solved problem and the advice
net_generate_report ==
    /\ MayCall("net", "generate_report")
    /\ IF DOMAIN netResults = {} THEN Called("generate_report")
       ELSE IF ~(Lookups(ReportBlocks, DOMAIN netResults) \subseteq DOMAIN netResults)
       THEN Raised("KeyError")
       ELSE IF ~(AdviceLocals(DOMAIN netResults) \subseteq BoundLocals(DOMAIN netResults))
       THEN Raised("UnboundLocalError")
       ELSE Called("generate_report")
    /\ UNCHANGED <<demo, tieBreak, lpResults, netResults, netGraphs, tpResults,
                   solveLog, tpLocals, sideVars>>

\* visualize_results: warns and returns when self.results is empty, else
\* draws the panels of the solved problems and writes
\* transportation_results.png
tp_visualize_results ==
    /\ MayCall("tp", "visualize_results")
    /\ Called("visualize_results")
    /\ chartWrites' = IF DOMAIN tpResults = {} THEN chartWrites ELSE chartWrites + 1
    /\ UNCHANGED <<demo, tieBreak, lpResults, netResults, netGraphs, tpResults,
                   solveLog, tpLocals, saPc, variantLog, estimateLog>>

\* the percentages by which cost_sensitivity_analysis changes a route cost
cost_changes == <<-20, -10, 10, 20>>

\* how many routes cost_sensitivity_analysis looks at: route_details[:3]
KeyRoutes == 3

\* the estimates for every recorded route, not only the first three
CostEstimatesAllRoutes(basic) ==
    [n \in 1..(Len(basic.route_details) * Len(cost_changes)) |->
        Only({
            [from                  |-> route.from,
             to                    |-> route.to,
             cost_change           |-> c,
             den                   |-> basic.den * PercentBase,
             estimated_cost_change |-> route.total_cost * c,
             new_total_cost        |-> basic.min_cost * PercentBase
                                       + route.total_cost * c]
            : route \in {basic.route_details[((n - 1) \div Len(cost_changes)) + 1]},
              c \in {cost_changes[((n - 1) % Len(cost_changes)) + 1]}})]

\* the lines cost_sensitivity_analysis prints: for each of the first three
\* routes and each change, estimated_cost_change = total_cost * change / 100
\* and new_total_cost = base_cost + estimated_cost_change (numerators over
\* den)
CostEstimates(basic) ==
    [n \in 1..((IF Len(basic.route_details) < KeyRoutes
                THEN Len(basic.route_details) ELSE KeyRoutes)
               * Len(cost_changes)) |->
        Only({
            [from                  |-> route.from,
             to                    |-> route.to,
             cost_change           |-> c,
             den                   |-> basic.den * PercentBase,
             estimated_cost_change |-> route.total_cost * c,
             new_total_cost        |-> basic.min_cost * PercentBase
                                       + route.total_cost * c]
            : route \in {basic.route_details[((n - 1) \div Len(cost_changes)) + 1]},
              c \in {cost_changes[((n - 1) % Len(cost_changes)) + 1]}})]

\* cost_sensitivity_analysis: warns and returns when 'basic' is not in
\* self.results, else prints estimates from the stored routes; it solves
\* nothing
cost_sensitivity_analysis ==
    /\ MayCall("tp", "cost_sensitivity_analysis")
    /\ Called("cost_sensitivity_analysis")
    /\ estimateLog' = IF "basic" \in DOMAIN tpResults
                      THEN CostEstimates(tpResults["basic"])
                      ELSE << >>
    /\ UNCHANGED <<demo, tieBreak, lpResults, netResults, netGraphs, tpResults,
                   solveLog, tpLocals, saPc, variantLog, chartWrites>>

\* generate_report with product_costs[product] += detail['quantity']
ProductCostsByQuantity(multi) ==
    [p \in {multi.route_details[k].product : k \in 1..Len(multi.route_details)} |->
        SumSeq([k \in 1..Len(multi.route_details) |->
                   IF multi.route_details[k].product = p
                   THEN multi.route_details[k].quantity ELSE 0])]

\* generate_report: product_costs, the total_cost of the recorded routes
\* added up per product (numerators over den)
ProductCosts(multi) ==
    [p \in {multi.route_details[k].product : k \in 1..Len(multi.route_details)} |->
        SumSeq([k \in 1..Len(multi.route_details) |->
                   IF multi.route_details[k].product = p
                   THEN multi.route_details[k].total_cost ELSE 0])]

\* generate_report: percentage = cost / min_cost * 100 as <<num, den>>
ProductShare(multi, p) == <<ProductCosts(multi)[p] * 100, multi.min_cost>>

tp_generate_report ==
    /\ MayCall("tp", "generate_report")
    /\ Called("generate_report")
    /\ UNCHANGED <<demo, tieBreak, lpResults, netResults, netGraphs, tpResults,
                   solveLog, tpLocals, sideVars>>

-----------------------------------------------------------------------------
(* The scripts.  A run is one script: its demo object starts with empty    *)
(* results; its methods are called by main() in main's order, or by an     *)
(* importing caller in any order.                                          *)

EmptyDict == [k \in {} |-> k]

Init ==
    /\ demo \in {"lp", "net", "tp"}
    /\ tieBreak \in TieRules
    /\ lpResults = EmptyDict
    /\ netResults = EmptyDict
    /\ netGraphs = EmptyDict
    /\ tpResults = EmptyDict
    /\ solveLog = << >>
    /\ mainPc \in {0, 1}
    /\ callLog = << >>
    /\ saPc = 0
    /\ variantLog = << >>
    /\ chartWrites = 0
    /\ estimateLog = << >>
    /\ supply = basic_supply
    /\ demand = basic_demand
    /\ factories = basic_factories
    /\ warehouses = basic_warehouses
    /\ cost_matrix = basic_cost_matrix
    /\ balanced = FALSE

Next ==
    \/ solve_production_planning
    \/ lp_visualize_results
    \/ sensitivity_analysis
    \/ sensitivity_variant
    \/ lp_generate_report
    \/ solve_max_flow_problem
    \/ solve_min_cost_flow_problem
    \/ solve_shortest_path_problem
    \/ solve_basic_transportation
    \/ solve_multi_product_transportation
    \/ net_visualize_results
    \/ network_analysis
    \/ net_generate_report
    \/ tp_visualize_results
    \/ cost_sensitivity_analysis
    \/ tp_generate_report

Spec == Init /\ [][Next]_vars

\* The balancing step of solve_basic_transportation as a function of the
\* supply and demand it is given: three factories, four warehouses, every
\* quantity drawn from 0..MaxQty.
InitBalance ==
    /\ demo = "balance"
    /\ tieBreak = "first"
    /\ lpResults = EmptyDict
    /\ netResults = EmptyDict
    /\ netGraphs = EmptyDict
    /\ tpResults = EmptyDict
    /\ solveLog = << >>
    /\ mainPc = 0
    /\ callLog = << >>
    /\ saPc = 0
    /\ variantLog = << >>
    /\ chartWrites = 0
    /\ estimateLog = << >>
    /\ supply \in [1..Len(basic_supply) -> 0..MaxQty]
    /\ demand \in [1..Len(basic_demand) -> 0..MaxQty]
    /\ factories = basic_factories
    /\ warehouses = basic_warehouses
    /\ cost_matrix = basic_cost_matrix
    /\ balanced = FALSE

NextBalance == balance_step

SpecBalance == InitBalance /\ [][NextBalance]_vars

\* solve_production_planning as a function of its data, followed by the
\* chart and the report
InitStatus ==
    /\ demo = "lp"
    /\ tieBreak \in TieRules
    /\ lpResults = EmptyDict
    /\ netResults = EmptyDict
    /\ netGraphs = EmptyDict
    /\ tpResults = EmptyDict
    /\ solveLog = << >>
    /\ mainPc = 0
    /\ callLog = << >>
    /\ saPc = 0
    /\ variantLog = << >>
    /\ chartWrites = 0
    /\ estimateLog = << >>
    /\ supply = basic_supply
    /\ demand = basic_demand
    /\ factories = basic_factories
    /\ warehouses = basic_warehouses
    /\ cost_matrix = basic_cost_matrix
    /\ balanced = FALSE

NextStatus ==
    \/ solve_production_scenario
    \/ lp_visualize_results
    \/ lp_generate_report

SpecStatus == InitStatus /\ [][NextStatus]_vars

\* solve_basic_transportation as a function of its data, followed by the
\* chart and the report
InitInvalid ==
    /\ demo = "tp"
    /\ tieBreak \in TieRules
    /\ lpResults = EmptyDict
    /\ netResults = EmptyDict
    /\ netGraphs = EmptyDict
    /\ tpResults = EmptyDict
    /\ solveLog = << >>
    /\ mainPc = 0
    /\ callLog = << >>
    /\ saPc = 0
    /\ variantLog = << >>
    /\ chartWrites = 0
    /\ estimateLog = << >>
    /\ supply = basic_supply
    /\ demand = basic_demand
    /\ factories = basic_factories
    /\ warehouses = basic_warehouses
    /\ cost_matrix = basic_cost_matrix
    /\ balanced = FALSE

NextInvalid ==
    \/ solve_basic_scenario
    \/ tp_visualize_results
    \/ tp_generate_report

SpecInvalid == InitInvalid /\ [][NextInvalid]_vars

\* the solve methods called again and again on one object, the basic
\* transportation problem with balanced and with unbalanced data
InitTwice ==
    /\ demo \in {"lp", "net", "tp"}
    /\ tieBreak \in TieRules
    /\ lpResults = EmptyDict
    /\ netResults = EmptyDict
    /\ netGraphs = EmptyDict
    /\ tpResults = EmptyDict
    /\ solveLog = << >>
    /\ mainPc = 0
    /\ callLog = << >>
    /\ saPc = 0
    /\ variantLog = << >>
    /\ chartWrites = 0
    /\ estimateLog = << >>
    /\ \E loc \in UnbalancedLocals :
           /\ supply = loc.supply
           /\ demand = loc.demand
           /\ factories = loc.factories
           /\ warehouses = loc.warehouses
           /\ cost_matrix = loc.cost_matrix
    /\ balanced = FALSE

NextTwice ==
    \/ solve_production_planning
    \/ solve_max_flow_problem
    \/ solve_min_cost_flow_problem
    \/ solve_shortest_path_problem
    \/ solve_basic_on_data
    \/ solve_multi_product_transportation

SpecTwice == InitTwice /\ [][NextTwice]_vars

-----------------------------------------------------------------------------
(* Claims *)

LpSolved == DOMAIN lpResults # {}

\* C1: the production plan that solve_production_planning stores never uses
\* more than is available: labor_used is the labor the plan needs and is at
\* most 100, material_used is the material it needs and is at most 80, and
\* no quantity is negative.
C1_ResourcesNotExceeded ==
    LpSolved =>
        /\ lpResults.den > 0
        /\ lpResults.labor_used
               = SumSeq([i \in 1..3 |-> labor_req[i] * lpResults.solution[i]])
        /\ lpResults.material_used
               = SumSeq([i \in 1..3 |-> material_req[i] * lpResults.solution[i]])
        /\ lpResults.labor_used <= 100 * lpResults.den
        /\ lpResults.material_used <= 80 * lpResults.den
        /\ \A i \in 1..3 : lpResults.solution[i] >= 0

\* the solve has run and its plan uses up both resources
C1_Witness ==
    /\ LpSolved
    /\ lpResults.labor_used = 100 * lpResults.den
    /\ lpResults.material_used = 80 * lpResults.den

\* the production plans with whole quantities that respect both resources
FeasibleWholePlans ==
    {x \in (0..100) \X (0..80) \X (0..100) :
        /\ 2 * x[1] + x[2] + 3 * x[3] <= 100
        /\ x[1] + 2 * x[2] + x[3] <= 80}

\* prices <<a, b>> / q of labor and material that pay for every product: by
\* weak duality no plan, whole or not, earns more than (100 a + 80 b) / q
DualPrices(q) ==
    {y \in (0..(50 * q)) \X (0..(50 * q)) :
        /\ 2 * y[1] + y[2] >= 40 * q
        /\ y[1] + 2 * y[2] >= 30 * q
        /\ 3 * y[1] + y[2] >= 50 * q}

\* C2: max_profit is the optimum of the fixed instance: it is the value of
\* 40 x0 + 30 x1 + 50 x2 at the stored plan, the plan is feasible, no
\* feasible plan with whole quantities earns more, and a pair of dual prices
\* with the same value shows that no feasible plan at all earns more.
C2_MaxProfitIsOptimum ==
    LpSolved =>
        LET x == lpResults.solution
            d == lpResults.den
        IN  /\ d > 0
            /\ lpResults.max_profit = 40 * x[1] + 30 * x[2] + 50 * x[3]
            /\ \A i \in 1..3 : x[i] >= 0
            /\ 2 * x[1] + x[2] + 3 * x[3] <= 100 * d
            /\ x[1] + 2 * x[2] + x[3] <= 80 * d
            /\ \A z \in FeasibleWholePlans :
                   (40 * z[1] + 30 * z[2] + 50 * z[3]) * d <= lpResults.max_profit
            /\ \E q \in 1..3 : \E y \in DualPrices(q) :
                   (100 * y[1] + 80 * y[2]) * d = lpResults.max_profit * q

\* the solve has run, the plan makes something and other plans earn less
C2_Witness ==
    /\ LpSolved
    /\ lpResults.max_profit > 0
    /\ \E z \in FeasibleWholePlans :
           (40 * z[1] + 30 * z[2] + 50 * z[3]) * lpResults.den
               < lpResults.max_profit

MaxFlowDone == "max_flow" \in DOMAIN netResults

\* the capacity of the S-T cut whose source side is X
CutCapacity(X) ==
    SumSeq([k \in 1..Len(edges_capacity) |->
               IF edges_capacity[k][1] \in X /\ edges_capacity[k][2] \notin X
               THEN edges_capacity[k][3] ELSE 0])

\* the source sides of the S-T cuts
Cuts == {X \cup {"S"} : X \in SUBSET {"A", "B", "C", "D"}}

\* C3: the max_flow_value solve_max_flow_problem returns equals the least
\* capacity of an S-T cut of the fixed network.
C3_MaxFlowEqualsMinCut ==
    MaxFlowDone =>
        /\ \E X \in Cuts : CutCapacity(X) = netResults.max_flow.max_flow_value
        /\ \A X \in Cuts : netResults.max_flow.max_flow_value <= CutCapacity(X)

\* the solve has run and the flow fills the cut {S, A, B, D}, which is
\* smaller than the cut {S}
C3_Witness ==
    /\ MaxFlowDone
    /\ netResults.max_flow.max_flow_value = CutCapacity({"S", "A", "B", "D"})
    /\ netResults.max_flow.max_flow_value < CutCapacity({"S"})

\* C4: in the flow solve_max_flow_problem returns every edge carries between
\* 0 and its capacity, and every entry of flow_details is an edge of the
\* network with its capacity and a flow above 0 and at most that capacity.
C4_FlowWithinCapacity ==
    MaxFlowDone =>
        LET r == netResults.max_flow
        IN  /\ \A k \in 1..Len(edges_capacity) :
                   LET e == <<edges_capacity[k][1], edges_capacity[k][2]>>
                   IN  /\ e \in DOMAIN r.flow_dict
                       /\ 0 <= r.flow_dict[e]
                       /\ r.flow_dict[e] <= edges_capacity[k][3]
            /\ \A n \in 1..Len(r.flow_details) :
                   LET d == r.flow_details[n]
                   IN  /\ <<d.from, d.to, d.capacity>> \in RangeOf(edges_capacity)
                       /\ d.flow = r.flow_dict[<<d.from, d.to>>]
                       /\ 0 < d.flow
                       /\ d.flow <= d.capacity

\* the solve has run; one recorded edge is full, one is not, and one edge
\* of the network carries nothing
C4_Witness ==
    /\ MaxFlowDone
    /\ \E n \in 1..Len(netResults.max_flow.flow_details) :
           netResults.max_flow.flow_details[n].flow
               = netResults.max_flow.flow_details[n].capacity
    /\ \E n \in 1..Len(netResults.max_flow.flow_details) :
           netResults.max_flow.flow_details[n].flow
               < netResults.max_flow.flow_details[n].capacity
    /\ \E e \in DOMAIN netResults.max_flow.flow_dict :
           netResults.max_flow.flow_dict[e] = 0

ShortestPathDone == "shortest_path" \in DOMAIN netResults

IsRoad(u, v) ==
    \E k \in 1..Len(roads) : {roads[k][1], roads[k][2]} = {u, v}

RoadLength(u, v) ==
    LET k == CHOOSE k \in 1..Len(roads) : {roads[k][1], roads[k][2]} = {u, v}
    IN  roads[k][3]

RouteLength(path) ==
    SumSeq([k \in 1..(Len(path) - 1) |-> RoadLength(path[k], path[k + 1])])

\* C5: the shortest_distance solve_shortest_path_problem returns is the sum
\* of the road lengths along the shortest_path it returns; the path starts
\* at the start city, ends at the end city and follows roads of the graph;
\* the last cumulative value of path_details is shortest_distance.
C5_DistanceIsPathLength ==
    ShortestPathDone =>
        LET r == netResults.shortest_path
            p == r.shortest_path
        IN  /\ Len(p) >= 2
            /\ p[1] = "Start"
            /\ p[Len(p)] = "End"
            /\ \A k \in 1..(Len(p) - 1) : IsRoad(p[k], p[k + 1])
            /\ r.shortest_distance = RouteLength(p)
            /\ Len(r.path_details) = Len(p) - 1
            /\ r.path_details[Len(r.path_details)].cumulative
                   = r.shortest_distance

\* the solve has run and the path it returns has several roads
C5_Witness ==
    /\ ShortestPathDone
    /\ Len(netResults.shortest_path.shortest_path) > 2
    /\ netResults.shortest_path.shortest_distance > 0

\* the simple paths of the road graph that extend path to the city t
RECURSIVE SimpleRoutes(_, _)
SimpleRoutes(path, t) ==
    LET u == path[Len(path)]
    IN  IF u = t THEN {path}
        ELSE UNION {SimpleRoutes(Append(path, v), t) :
                       v \in {w \in RangeOf(cities) \ RangeOf(path) : IsRoad(u, w)}}

\* C6: shortest_distance is at most the total length of every simple path
\* from the start city to the end city.
C6_DistanceIsShortest ==
    ShortestPathDone =>
        \A p \in SimpleRoutes(<<"Start">>, "End") :
            netResults.shortest_path.shortest_distance <= RouteLength(p)

\* the solve has run, some simple path is as short as shortest_distance and
\* some simple path is longer
C6_Witness ==
    /\ ShortestPathDone
    /\ \E p \in SimpleRoutes(<<"Start">>, "End") :
           RouteLength(p) = netResults.shortest_path.shortest_distance
    /\ \E p \in SimpleRoutes(<<"Start">>, "End") :
           RouteLength(p) > netResults.shortest_path.shortest_distance

-----------------------------------------------------------------------------
(* Transportation: the balancing step *)

\* the step from the locals as set to the locals as balanced
BalancingStepTaken == ~balanced /\ balanced'

\* C7: whatever supply and demand the balancing step of
\* solve_basic_transportation starts from, if their totals differ then after
\* the step the totals are equal exactly, the cost matrix has one row per
\* supply entry and one column per demand entry, and every entry of the
\* dummy row or dummy column it gained is 0.
C7_BalancedAfterStep ==
    [][(BalancingStepTaken /\ SumSeq(supply) # SumSeq(demand)) =>
          /\ SumSeq(supply') = SumSeq(demand')
          /\ Len(cost_matrix') = Len(supply')
          /\ \A i \in 1..Len(cost_matrix') : Len(cost_matrix'[i]) = Len(demand')
          /\ Len(supply') > Len(supply) \/ Len(demand') > Len(demand)
          /\ \A i \in 1..Len(supply'), j \in 1..Len(demand') :
                (i > Len(supply) \/ j > Len(demand)) => cost_matrix'[i][j] = 0
      ]_vars

\* the step has run on a surplus: a dummy warehouse takes a positive
\* quantity at cost 0 and the totals agree
C7_Witness ==
    /\ balanced
    /\ Len(demand) = Len(basic_demand) + 1
    /\ demand[Len(demand)] > 0
    /\ SumSeq(supply) = SumSeq(demand)
    /\ \A i \in 1..Len(cost_matrix) : cost_matrix[i][Len(demand)] = 0

\* s is t with one more element at the end
OneMore(s, t) == Len(s) = Len(t) + 1 /\ SubSeq(s, 1, Len(t)) = t

\* C8: the balancing step adds one dummy node on the right side.  On a
\* surplus it appends one warehouse whose demand is the surplus, gives every
\* row of the cost matrix one more column, and leaves supply and factories
\* alone; on a shortfall it appends one factory whose supply is the
\* shortfall, gives the cost matrix one more row, and leaves demand and
\* warehouses alone; when the totals are equal it changes nothing.
C8_OneDummyOnCorrectSide ==
    [][BalancingStepTaken =>
          /\ SumSeq(supply) > SumSeq(demand) =>
                /\ demand' = Append(demand, SumSeq(supply) - SumSeq(demand))
                /\ OneMore(warehouses', warehouses)
                /\ supply' = supply
                /\ factories' = factories
                /\ Len(cost_matrix') = Len(cost_matrix)
                /\ \A i \in 1..Len(cost_matrix) :
                       OneMore(cost_matrix'[i], cost_matrix[i])
          /\ SumSeq(supply) < SumSeq(demand) =>
                /\ supply' = Append(supply, SumSeq(demand) - SumSeq(supply))
                /\ OneMore(factories', factories)
                /\ demand' = demand
                /\ warehouses' = warehouses
                /\ OneMore(cost_matrix', cost_matrix)
                /\ Len(cost_matrix'[Len(cost_matrix')]) = Len(warehouses)
          /\ SumSeq(supply) = SumSeq(demand) =>
                /\ supply' = supply
                /\ demand' = demand
                /\ factories' = factories
                /\ warehouses' = warehouses
                /\ cost_matrix' = cost_matrix
      ]_vars

\* the step has run on a shortfall: a dummy factory supplies a positive
\* quantity and the warehouses are the four the method started with
C8_Witness ==
    /\ balanced
    /\ Len(supply) = Len(basic_supply) + 1
    /\ supply[Len(supply)] > 0
    /\ Len(factories) = Len(basic_factories) + 1
    /\ warehouses = basic_warehouses
    /\ demand \in [1..Len(basic_demand) -> 0..MaxQty]

-----------------------------------------------------------------------------
(* Transportation: the solved plans *)

BasicDone == "basic" \in DOMAIN tpResults

\* the total cost of the plan x at the unit costs c
PlanCost(c, x) == SumSeq([i \in 1..Len(c) |-> Dot(c[i], x[i])])

\* the largest unit cost of the matrix c
LargestCost(c) == MaxOf({c[i][j] : i \in 1..Len(c), j \in 1..Len(c[1])})

\* Whole prices u[i] per factory and v[j] per warehouse with
\* u[i] + v[j] <= c[i][j] on every route value every plan x that ships all of
\* supply s and meets all of demand d at no more than it costs:
\*    sum c x  >=  sum (u[i] + v[j]) x[i][j]  =  sum u s + sum v d.
\* This is the largest such value with u[1] = 0 and v the best prices for u.
BestPriceBound(c, s, d) ==
    LET F  == Len(s)
        W  == Len(d)
        R  == (0 - LargestCost(c))..LargestCost(c)
        v(u) == [j \in 1..W |-> MinOf({c[i][j] - u[i] : i \in 1..F})]
    IN  MaxOf({Dot(u, s) + Dot(v(u), d) : u \in {w \in [1..F -> R] : w[1] = 0}})

\* C9: the entry solve_basic_transportation stores is a feasible and optimal
\* plan of the balanced model: every factory ships exactly its supply, every
\* warehouse receives exactly its demand, no shipment is negative, min_cost
\* is the cost of the plan at cost_matrix, and no plan, whole or fractional,
\* that meets the equalities costs less (prices on the factories and the
\* warehouses bound every such plan from below by min_cost).
C9_BasicPlanFeasibleOptimal ==
    BasicDone =>
        \A r \in {tpResults["basic"]} :
            LET F == Len(r.factories)
                W == Len(r.warehouses)
                x == r.solution_matrix
            IN  /\ r.den > 0
                /\ \A i \in 1..F : SumSeq(x[i]) = r.supply[i] * r.den
                /\ \A j \in 1..W :
                       SumSeq([i \in 1..F |-> x[i][j]]) = r.demand[j] * r.den
                /\ \A i \in 1..F, j \in 1..W : x[i][j] >= 0
                /\ r.min_cost = PlanCost(r.cost_matrix, x)
                /\ r.min_cost
                       = BestPriceBound(r.cost_matrix, r.supply, r.demand) * r.den

\* the solve has run and ships the 1200 t of the three factories over
\* several routes at a positive cost
C9_Witness ==
    /\ BasicDone
    /\ SumSeq(tpResults["basic"].supply) = SumSeq(basic_supply)
    /\ Len(tpResults["basic"].route_details) > Len(basic_supply)
    /\ tpResults["basic"].min_cost > 0

MultiDone == "multi_product" \in DOMAIN tpResults

\* the (factory, product, market) triples, by position
MultiTriples ==
    (1..Len(multi_factories)) \X (1..Len(multi_products)) \X (1..Len(markets))

\* the quantity the entry r ships from factory i of product p to market j:
\* route_details lists the positive quantities, the others are 0
Shipped(r, i, p, j) ==
    SumSeq([k \in 1..Len(r.route_details) |->
               IF /\ r.route_details[k].factory = r.factories[i]
                  /\ r.route_details[k].product = r.products[p]
                  /\ r.route_details[k].market = r.markets[j]
               THEN r.route_details[k].quantity ELSE 0])

\* the products whose quantities the constraint c of the model adds up
ProductsIn(c) == {MultiKey(k)[2] : k \in {h \in 1..Len(c.coef) : c.coef[h] # 0}}

\* C10: the multi-product model has exactly one variable per (factory,
\* product, market) triple and no variable is negative in the solved plan;
\* in that plan every factory ships of every product at most its
\* supply_matrix entry, every market receives of every product at least its
\* demand_matrix entry, and every constraint of the model adds up
\* quantities of one product only.
C10_PerProductConstraints ==
    MultiDone =>
        \A r \in {tpResults["multi_product"]} :
            /\ Len(MultiModel.obj) = Cardinality(MultiTriples)
            /\ \A k \in 1..Len(MultiModel.obj) :
                   Cardinality({t \in MultiTriples :
                                   MultiVar(t[1], t[2], t[3]) = k}) = 1
            /\ r.den > 0
            /\ \A k \in 1..Len(r.route_details) : r.route_details[k].quantity > 0
            /\ \A t \in MultiTriples :
                   Cardinality({k \in 1..Len(r.route_details) :
                       /\ r.route_details[k].factory = r.factories[t[1]]
                       /\ r.route_details[k].product = r.products[t[2]]
                       /\ r.route_details[k].market = r.markets[t[3]]}) <= 1
            /\ \A i \in 1..Len(r.factories), p \in 1..Len(r.products) :
                   SumSeq([j \in 1..Len(r.markets) |-> Shipped(r, i, p, j)])
                       <= r.supply_matrix[i][p] * r.den
            /\ \A j \in 1..Len(r.markets), p \in 1..Len(r.products) :
                   SumSeq([i \in 1..Len(r.factories) |-> Shipped(r, i, p, j)])
                       >= r.demand_matrix[j][p] * r.den
            /\ \A h \in 1..Len(MultiModel.cons) :
                   Cardinality(ProductsIn(MultiModel.cons[h])) = 1

\* the solve has run and the plan ships both products
C10_Witness ==
    /\ MultiDone
    /\ \A p \in 1..Len(multi_products) :
           \E k \in 1..Len(tpResults["multi_product"].route_details) :
               tpResults["multi_product"].route_details[k].product
                   = multi_products[p]

-----------------------------------------------------------------------------
(* Network flow: the minimum-cost plan *)

MinCostFlowDone == "min_cost_flow" \in DOMAIN netResults

\* the flow the entry r sends over the route <<w, c>>: flow_solution holds
\* the positive flows, the others are 0
FlowOn(r, w, c) ==
    IF <<w, c>> \in DOMAIN r.flow_solution THEN r.flow_solution[<<w, c>>] ELSE 0

\* Prices u[w] >= 0 per warehouse, v[c] >= 0 per customer and the rent
\* max(0, v[c] - u[w] - cost) of a route's capacity value every plan x with
\* sum_c x[w, c] <= supply (in particular = supply), sum_w x[w, c] >= demand
\* and 0 <= x <= capacity at no more than it costs:
\*    sum cost x  >=  sum v demand - sum u supply - sum rent capacity.
\* This is the largest such value with whole prices up to the largest cost.
BestRouteBound ==
    LET top == MaxOf({transport_data[k][3] : k \in 1..Len(transport_data)})
        W   == {mcf_warehouses[i] : i \in 1..Len(mcf_warehouses)}
        C   == {mcf_customers[j] : j \in 1..Len(mcf_customers)}
        rent(u, v, k) ==
            LET d == v[transport_data[k][2]] - u[transport_data[k][1]]
                         - transport_data[k][3]
            IN  IF d > 0 THEN d ELSE 0
        value(u, v) ==
            SumOver(C, [c \in C |-> v[c] * mcf_demand[c]])
            - SumOver(W, [w \in W |-> u[w] * mcf_supply[w]])
            - SumSeq([k \in 1..Len(transport_data) |->
                         rent(u, v, k) * transport_data[k][4]])
    IN  MaxOf({value(u, v) : u \in [W -> 0..top], v \in [C -> 0..top]})

\* C11: the plan solve_min_cost_flow_problem stores meets supply, demand and
\* capacity and is cheapest: warehouse 1 ships exactly 100 and warehouse 2
\* exactly 150, the customers receive exactly 80, 90 and 80, every route
\* flow lies between 0 and the capacity of the route, min_cost is the cost
\* of the plan, and no plan, whole or fractional, that meets supply, demand
\* and capacity costs less.
C11_MinCostFlowFeasibleOptimal ==
    MinCostFlowDone =>
        \A r \in {netResults["min_cost_flow"]} :
            /\ r.den > 0
            /\ FlowOn(r, "W1", "CA") + FlowOn(r, "W1", "CB")
                   + FlowOn(r, "W1", "CC") = 100 * r.den
            /\ FlowOn(r, "W2", "CA") + FlowOn(r, "W2", "CB")
                   + FlowOn(r, "W2", "CC") = 150 * r.den
            /\ FlowOn(r, "W1", "CA") + FlowOn(r, "W2", "CA") = 80 * r.den
            /\ FlowOn(r, "W1", "CB") + FlowOn(r, "W2", "CB") = 90 * r.den
            /\ FlowOn(r, "W1", "CC") + FlowOn(r, "W2", "CC") = 80 * r.den
            /\ \A k \in 1..Len(r.transport_data) :
                   LET f == FlowOn(r, r.transport_data[k][1], r.transport_data[k][2])
                   IN  0 <= f /\ f <= r.transport_data[k][4] * r.den
            /\ DOMAIN r.flow_solution \subseteq
                   {<<r.transport_data[k][1], r.transport_data[k][2]>> :
                       k \in 1..Len(r.transport_data)}
            /\ r.min_cost =
                   SumSeq([k \in 1..Len(r.transport_data) |->
                              r.transport_data[k][3]
                              * FlowOn(r, r.transport_data[k][1],
                                          r.transport_data[k][2])])
            /\ r.min_cost = BestRouteBound * r.den

\* the solve has run and its plan fills some route to capacity and leaves
\* another with room
C11_Witness ==
    /\ MinCostFlowDone
    /\ \E k \in 1..Len(transport_data) :
           FlowOn(netResults["min_cost_flow"], transport_data[k][1],
                  transport_data[k][2])
               = transport_data[k][4] * netResults["min_cost_flow"].den
    /\ \E k \in 1..Len(transport_data) :
           /\ FlowOn(netResults["min_cost_flow"], transport_data[k][1],
                     transport_data[k][2]) > 0
           /\ FlowOn(netResults["min_cost_flow"], transport_data[k][1],
                     transport_data[k][2])
                  < transport_data[k][4] * netResults["min_cost_flow"].den

-----------------------------------------------------------------------------
(* Linear programming: sensitivity analysis *)

\* a step of sensitivity_analysis: its call, or one pass of its loops
SensitivityStep ==
    \/ saPc > 0
    \/ /\ Len(callLog') > Len(callLog)
       /\ callLog'[Len(callLog')] = "sensitivity_analysis"

\* the fields of the baseline result the analysis reads or is compared with
BaselineFields ==
    {"profit", "solution", "max_profit", "labor_req", "material_req",
     "labor_available", "material_available"}

\* C12: no step of sensitivity_analysis changes the baseline result: profit,
\* solution, max_profit, labor_req, material_req, labor_available and
\* material_available of self.results are after the step what they were
\* before it (so they are after the return what they were at the call),
\* and no field is added or removed.
C12_SensitivityKeepsBaseline ==
    [][SensitivityStep =>
          /\ DOMAIN lpResults' = DOMAIN lpResults
          /\ \A f \in BaselineFields \cap DOMAIN lpResults :
                 lpResults'[f] = lpResults[f]
      ]_vars

\* the analysis has solved all its variants and returned, and the baseline
\* is the solved production plan
C12_Witness ==
    /\ saPc = 0
    /\ Len(variantLog) >= Len(products) * Len(sensitivity_changes)
    /\ BaselineFields \subseteq DOMAIN lpResults
    /\ lpResults.profit = <<40, 30, 50>>
    /\ lpResults.max_profit = 2200 * lpResults.den

\* the number of the product named n
ProductNumber(n) == CHOOSE i \in 1..3 : <<"A", "B", "C">>[i] = n

\* C13: every variant sensitivity_analysis solves is isolated.  The model of
\* the variant (product i, change c) has, in hundredths, the coefficient
\* base[i] * (100 + c) for product i and base[j] * 100 for every other
\* product j, where base = (40, 30, 50), and exactly the two resource
\* constraints 2a + b + 3c <= 100 and a + 2b + c <= 80; and two variants
\* with the same (i, c) have the same optimum wherever they stand in the
\* sequence of variants solved.
C13_VariantsIsolated ==
    \A p \in 1..Len(variantLog) :
        \A e \in {variantLog[p]} :
            /\ e.prob.sense = "max"
            /\ e.prob.obj =
                   [j \in 1..3 |->
                       IF j = ProductNumber(e.product)
                       THEN <<40, 30, 50>>[j] * (100 + e.change)
                       ELSE <<40, 30, 50>>[j] * 100]
            /\ e.prob.cons =
                   << [coef |-> <<2, 1, 3>>, op |-> "le", rhs |-> 100],
                      [coef |-> <<1, 2, 1>>, op |-> "le", rhs |-> 80] >>
            /\ DOMAIN e.prob.up = {}
            /\ e.den > 0
            /\ \A q \in 1..Len(variantLog) :
                   (variantLog[q].product = e.product
                        /\ variantLog[q].change = e.change)
                   => variantLog[q].new_max_profit * e.den
                          = e.new_max_profit * variantLog[q].den

\* the same variant has been solved in two runs of the analysis, with
\* variants of other products solved in between
C13_Witness ==
    \E p, q \in 1..Len(variantLog) :
        /\ p + 1 < q
        /\ variantLog[p].product = variantLog[q].product
        /\ variantLog[p].change = variantLog[q].change
        /\ variantLog[p + 1].product # variantLog[p].product

\* the variants in the order the loops declare them
DeclaredVariants ==
    << <<"A", -20>>, <<"A", -10>>, <<"A", 10>>, <<"A", 20>>,
       <<"B", -20>>, <<"B", -10>>, <<"B", 10>>, <<"B", 20>>,
       <<"C", -20>>, <<"C", -10>>, <<"C", 10>>, <<"C", 20>> >>

\* the calls of sensitivity_analysis made so far on a solved object
SensitivityRuns ==
    Cardinality({p \in 1..Len(callLog) :
        /\ callLog[p] = "sensitivity_analysis"
        /\ \E q \in 1..(p - 1) : callLog[q] = "solve_production_planning"})

\* C14: sensitivity_analysis solves its variants one after the other in the
\* declared order, products A, B, C and for each the changes -20, -10, +10,
\* +20: the k-th solve of a run is the k-th declared variant, every solve of
\* the analysis is one logged variant, and a run that has returned has
\* solved exactly the 12 variants, each once.
C14_VariantsInDeclaredOrder ==
    /\ \A p \in 1..Len(variantLog) :
           <<variantLog[p].product, variantLog[p].change>>
               = DeclaredVariants[((p - 1) % 12) + 1]
    /\ Len(SelectSeq(solveLog, LAMBDA e : e = "sensitivity")) = Len(variantLog)
    /\ saPc = 0 => Len(variantLog) = 12 * SensitivityRuns
    /\ saPc > 0 => Len(variantLog) = 12 * (SensitivityRuns - 1) + (saPc - 1)

\* main() has got past its call of sensitivity_analysis, which solved its
\* 12 variants
C14_Witness ==
    /\ mainPc > 3
    /\ demo = "lp"
    /\ saPc = 0
    /\ Len(variantLog) = 12
    /\ variantLog[12].product = "C"
    /\ variantLog[12].change = 20

\* the percentage <<num, den>> lies between 0 and 100
InPercentRange(u) == u[2] > 0 /\ 0 <= u[1] /\ u[1] <= 100 * u[2]

\* C15: every utilization percentage of a solved scenario lies between 0 and
\* 100: the labor and the material utilization of the production plan, the
\* utilization of every edge in flow_details of max flow, and the
\* utilization of every route in cost_details of min-cost flow.
C15_UtilizationInRange ==
    /\ LpSolved =>
           /\ InPercentRange(LaborUtilization(lpResults))
           /\ InPercentRange(MaterialUtilization(lpResults))
    /\ MaxFlowDone =>
           \A n \in 1..Len(netResults["max_flow"].flow_details) :
               InPercentRange(netResults["max_flow"].flow_details[n].utilization)
    /\ MinCostFlowDone =>
           \A n \in 1..Len(netResults["min_cost_flow"].cost_details) :
               InPercentRange(netResults["min_cost_flow"].cost_details[n].utilization)

\* max flow and min-cost flow are both solved, and each has an edge used in
\* full and an edge used in part
C15_Witness ==
    /\ MaxFlowDone
    /\ MinCostFlowDone
    /\ \E n, m \in 1..Len(netResults["max_flow"].flow_details) :
           LET a == netResults["max_flow"].flow_details[n].utilization
               b == netResults["max_flow"].flow_details[m].utilization
           IN  a[1] = 100 * a[2] /\ 0 < b[1] /\ b[1] < 100 * b[2]
    /\ \E n, m \in 1..Len(netResults["min_cost_flow"].cost_details) :
           LET a == netResults["min_cost_flow"].cost_details[n].utilization
               b == netResults["min_cost_flow"].cost_details[m].utilization
           IN  a[1] = 100 * a[2] /\ 0 < b[1] /\ b[1] < 100 * b[2]

\* the entries of the list s that describe the edge from u to v
EntriesOf(s, u, v) == {n \in 1..Len(s) : s[n].from = u /\ s[n].to = v}

\* C16: in the entry solve_max_flow_problem stores, an edge of the network is
\* listed in bottleneck_edges exactly when it carries positive flow and
\* flow / capacity * 100 is at least 99.9, which for this network is exactly
\* when its flow equals its capacity; and every entry of bottleneck_edges is
\* an entry of flow_details.
C16_BottleneckIffSaturated ==
    MaxFlowDone =>
        \A r \in {netResults["max_flow"]} :
            /\ \A k \in 1..Len(edges_capacity) :
                   \A e \in {edges_capacity[k]} :
                       \A f \in {r.flow_dict[<<e[1], e[2]>>]} :
                           /\ EntriesOf(r.bottleneck_edges, e[1], e[2]) # {}
                                  <=> (f > 0 /\ f * 1000 >= 999 * e[3])
                           /\ EntriesOf(r.bottleneck_edges, e[1], e[2]) # {}
                                  <=> f = e[3]
            /\ \A n \in 1..Len(r.bottleneck_edges) :
                   /\ r.bottleneck_edges[n] \in RangeOf(r.flow_details)
                   /\ \E k \in 1..Len(edges_capacity) :
                          /\ edges_capacity[k][1] = r.bottleneck_edges[n].from
                          /\ edges_capacity[k][2] = r.bottleneck_edges[n].to

\* max flow is solved; some edge is a bottleneck, some edge carries flow
\* below its capacity, and some edge carries none
C16_Witness ==
    /\ MaxFlowDone
    /\ Len(netResults["max_flow"].bottleneck_edges) > 0
    /\ Len(netResults["max_flow"].bottleneck_edges)
           < Len(netResults["max_flow"].flow_details)
    /\ Len(netResults["max_flow"].flow_details) < Len(edges_capacity)

\* the total_cost of the recorded routes s added up
RoutesCost(s) == SumSeq([k \in 1..Len(s) |-> s[k].total_cost])

\* the position of the name a in the list A
PlaceOf(A, a) == CHOOSE i \in 1..Len(A) : A[i] = a

\* C17: every route recorded by solve_basic_transportation,
\* solve_multi_product_transportation and solve_min_cost_flow_problem has a
\* quantity above 0, the unit cost of its cost table entry and total_cost =
\* quantity * unit_cost; the total_cost of the recorded routes adds up to
\* the reported min_cost; and the per-product cost shares generate_report
\* prints add up to 100% of min_cost.
C17_RouteCostsAddUp ==
    /\ BasicDone =>
           \A r \in {tpResults["basic"]} :
               /\ \A k \in 1..Len(r.route_details) :
                      \A d \in {r.route_details[k]} :
                          /\ d.quantity > 0
                          /\ d.unit_cost = r.cost_matrix[PlaceOf(r.factories, d.from)]
                                                        [PlaceOf(r.warehouses, d.to)]
                          /\ d.quantity = r.solution_matrix[PlaceOf(r.factories, d.from)]
                                                           [PlaceOf(r.warehouses, d.to)]
                          /\ d.total_cost = d.quantity * d.unit_cost
               /\ Len(r.route_details)
                      = Cardinality({ij \in (1..Len(r.factories)) \X (1..Len(r.warehouses)) :
                                        r.solution_matrix[ij[1]][ij[2]] > 0})
               /\ RoutesCost(r.route_details) = r.min_cost
    /\ MultiDone =>
           \A r \in {tpResults["multi_product"]} :
               /\ \A k \in 1..Len(r.route_details) :
                      \A d \in {r.route_details[k]} :
                          /\ d.quantity > 0
                          /\ d.unit_cost = r.cost_tensor[PlaceOf(r.factories, d.factory)]
                                                        [PlaceOf(r.products, d.product)]
                                                        [PlaceOf(r.markets, d.market)]
                          /\ d.total_cost = d.quantity * d.unit_cost
               /\ RoutesCost(r.route_details) = r.min_cost
               /\ r.min_cost > 0
               /\ SumOver(DOMAIN ProductCosts(r),
                          [p \in DOMAIN ProductCosts(r) |-> ProductShare(r, p)[1]])
                      = 100 * r.min_cost
               /\ \A p \in DOMAIN ProductCosts(r) : ProductShare(r, p)[2] = r.min_cost
    /\ MinCostFlowDone =>
           \A r \in {netResults["min_cost_flow"]} :
               /\ \A k \in 1..Len(r.cost_details) :
                      \A d \in {r.cost_details[k]} :
                          /\ d.flow > 0
                          /\ \E t \in 1..Len(r.transport_data) :
                                 /\ r.transport_data[t][1] = d.from
                                 /\ r.transport_data[t][2] = d.to
                                 /\ r.transport_data[t][3] = d.unit_cost
                          /\ d.total_cost = d.flow * d.unit_cost
               /\ RoutesCost(r.cost_details) = r.min_cost

\* both transportation problems are solved, the basic plan leaves some
\* route unused, and the multi-product report has two products with a
\* share of the cost each
C17_Witness ==
    /\ BasicDone
    /\ MultiDone
    /\ Len(tpResults["basic"].route_details)
           < Len(tpResults["basic"].factories) * Len(tpResults["basic"].warehouses)
    /\ tpResults["basic"].min_cost > 0
    /\ Cardinality(DOMAIN ProductCosts(tpResults["multi_product"])) = 2
    /\ \A p \in DOMAIN ProductCosts(tpResults["multi_product"]) :
           /\ ProductShare(tpResults["multi_product"], p)[1] > 0
           /\ ProductShare(tpResults["multi_product"], p)[1]
                  < 100 * tpResults["multi_product"].min_cost

\* the solve methods of the demo d
SolveMethods(d) ==
    CASE d = "lp"  -> {"solve_production_planning"}
      [] d = "net" -> {"solve_max_flow_problem", "solve_min_cost_flow_problem",
                       "solve_shortest_path_problem"}
      [] d = "tp"  -> {"solve_basic_transportation",
                       "solve_multi_product_transportation"}
      [] OTHER     -> {}

\* this run is a run of main(), and main() has made all its calls
MainRun == mainPc > 0
MainDone == mainPc > Len(MainSteps(demo)) /\ saPc = 0

\* the claim as stated: in a run of main() the chart file is written exactly
\* once, and once it is written no solver is invoked any more
C18_NoSolveAfterChartWritten ==
    /\ [](MainRun => chartWrites <= 1)
    /\ [](MainRun /\ MainDone => chartWrites = 1)
    /\ [][(MainRun /\ chartWrites > 0) => solveLog' = solveLog]_vars

\* C18 (amended): in a run of main() the chart file is written exactly once,
\* and it is written after every solve method of the run has returned; what
\* the graph and LP libraries are asked for after the write is only the
\* variants of sensitivity_analysis and the metrics of network_analysis, and
\* no solve method runs again.
C18_ChartWrittenOnceAfterSolveMethods ==
    /\ [](MainRun => chartWrites <= 1)
    /\ [](MainRun /\ MainDone => chartWrites = 1)
    /\ [][MainRun =>
            /\ chartWrites' # chartWrites =>
                   /\ chartWrites' = chartWrites + 1
                   /\ SolveMethods(demo) \subseteq RangeOf(callLog)
                   /\ SolveCalls = Cardinality(SolveMethods(demo))
            /\ chartWrites > 0 => SolveCalls' = SolveCalls
       ]_vars

\* main() of the production planning script has returned: the chart file was
\* written once, and the twelve variants were solved after that
C18_Witness ==
    /\ MainRun
    /\ MainDone
    /\ demo = "lp"
    /\ chartWrites = 1
    /\ Len(variantLog) = Len(products) * Len(sensitivity_changes)
    /\ solveLog[1] = "production"
    /\ Len(solveLog) = 1 + Len(variantLog)

\* the status of the solve whose entry is stored
StoredStatus == ProductionStatusOf(lpResults, tieBreak)

ReportingMethods ==
    {"visualize_results", "sensitivity_analysis", "cost_sensitivity_analysis",
     "network_analysis", "generate_report"}

\* only reporting methods were called on the object so far
OnlyReported == RangeOf(callLog) \subseteq ReportingMethods

\* C22: on a freshly constructed demo object, calls of visualize_results,
\* sensitivity_analysis, cost_sensitivity_analysis, network_analysis and
\* generate_report, in any order, invoke no solver, write no image file and
\* leave self.results and self.graphs empty; each call has returned (no
\* variant of the sensitivity analysis is pending).
C22_ReportingBeforeSolveDoesNothing ==
    OnlyReported =>
        /\ solveLog = << >>
        /\ chartWrites = 0
    /\ estimateLog = << >>
        /\ lpResults = EmptyDict
        /\ netResults = EmptyDict
        /\ netGraphs = EmptyDict
        /\ tpResults = EmptyDict
        /\ saPc = 0
        /\ variantLog = << >>

\* the chart, the sensitivity analysis and the report were all asked for,
\* in some order, before anything was solved
C22_Witness ==
    /\ OnlyReported
    /\ demo = "lp"
    /\ {"visualize_results", "sensitivity_analysis", "generate_report"}
           \subseteq RangeOf(callLog)

\* the key of self.results that the solve method m writes
KeyOf(m) ==
    CASE m = "solve_max_flow_problem"             -> "max_flow"
      [] m = "solve_min_cost_flow_problem"        -> "min_cost_flow"
      [] m = "solve_shortest_path_problem"        -> "shortest_path"
      [] m = "solve_basic_transportation"         -> "basic"
      [] m = "solve_multi_product_transportation" -> "multi_product"
      [] OTHER                                    -> "results"

\* the keys of the problems solved so far
SolvedKeys == {KeyOf(m) : m \in RangeOf(callLog) \cap SolveMethods(demo)}

\* the step is a call of the solve method m
SolveStepOf(m) == callLog' = Append(callLog, m) /\ m \in SolveMethods(demo)

\* C23: in NetworkFlowDemo and TransportationProblemDemo the keys of
\* self.results are exactly the problems solved so far (and the keys of
\* self.graphs are the solved problems that store a graph), and a call of a
\* solve method leaves the entry of every other problem, in self.results
\* and in self.graphs, as it was.
C23_SolveWritesOwnKeyOnly ==
    /\ [](demo = "net" => /\ DOMAIN netResults = SolvedKeys
                          /\ DOMAIN netGraphs
                                 = SolvedKeys \cap {"max_flow", "shortest_path"})
    /\ [](demo = "tp" => DOMAIN tpResults = SolvedKeys)
    /\ [][\A m \in SolveMethods(demo) \ {"solve_production_planning"} :
              SolveStepOf(m) =>
                  /\ \A k \in DOMAIN netResults \ {KeyOf(m)} :
                         k \in DOMAIN netResults' /\ netResults'[k] = netResults[k]
                  /\ \A k \in DOMAIN netGraphs \ {KeyOf(m)} :
                         k \in DOMAIN netGraphs' /\ netGraphs'[k] = netGraphs[k]
                  /\ \A k \in DOMAIN tpResults \ {KeyOf(m)} :
                         k \in DOMAIN tpResults' /\ tpResults'[k] = tpResults[k]
       ]_vars

\* the three network problems were solved, shortest path first and max flow
\* last, and all three entries are stored
C23_Witness ==
    /\ demo = "net"
    /\ callLog = <<"solve_shortest_path_problem", "solve_min_cost_flow_problem",
                   "solve_max_flow_problem">>
    /\ DOMAIN netResults = {"max_flow", "min_cost_flow", "shortest_path"}

\* the step is a call of cost_sensitivity_analysis
CostSensitivityStep == callLog' = Append(callLog, "cost_sensitivity_analysis")

\* C24: a call of cost_sensitivity_analysis invokes no solver and leaves
\* self.results as it was; when the basic problem is solved it prints, for
\* each of the first three recorded routes (fewer if fewer are recorded)
\* and each change c of -20, -10, +10, +20 in this order, the estimate
\* min_cost + total_cost of the route * c / 100, and nothing else.
C24_CostSensitivityEstimatesOnly ==
    [][CostSensitivityStep =>
          /\ solveLog' = solveLog
          /\ tpResults' = tpResults
          /\ BasicDone =>
                 \A b \in {tpResults["basic"]} :
                     /\ Len(estimateLog') <= 3 * 4
                     /\ Len(estimateLog') = 4 * MinOf({3, Len(b.route_details)})
                     /\ \A n \in 1..Len(estimateLog') :
                            \A e \in {estimateLog'[n]} :
                                \A r \in {b.route_details[((n - 1) \div 4) + 1]} :
                                    /\ e.from = r.from /\ e.to = r.to
                                    /\ e.cost_change
                                           = <<-20, -10, 10, 20>>[((n - 1) % 4) + 1]
                                    /\ e.den = 100 * b.den
                                    /\ e.new_total_cost
                                           = 100 * b.min_cost + r.total_cost * e.cost_change
      ]_vars

\* the analysis has run on a solved basic problem that recorded more than
\* three routes, and printed twelve estimates
C24_Witness ==
    /\ BasicDone
    /\ Len(tpResults["basic"].route_details) > 3
    /\ callLog # << >>
    /\ callLog[Len(callLog)] = "cost_sensitivity_analysis"
    /\ Len(estimateLog) = 12
    /\ estimateLog[1].new_total_cost < estimateLog[4].new_total_cost

\* C25: whichever of the three problems of NetworkFlowDemo were solved, and
\* in whatever order, visualize_results and generate_report look up only
\* keys that are in self.results and read only locals they have bound: no
\* call of theirs ends in KeyError or UnboundLocalError.
C25_ReportsReadSolvedOnly ==
    demo = "net" =>
        /\ "KeyError" \notin RangeOf(callLog)
        /\ "UnboundLocalError" \notin RangeOf(callLog)

\* only min-cost flow was solved, and then the chart was drawn and the
\* report printed
C25_Witness ==
    /\ demo = "net"
    /\ DOMAIN netResults = {"min_cost_flow"}
    /\ chartWrites = 1
    /\ callLog = <<"solve_min_cost_flow_problem", "visualize_results",
                   "generate_report">>

\* the step calls the solve method m right after a call of m
SecondCallOf(m) ==
    /\ callLog # << >>
    /\ callLog[Len(callLog)] = m
    /\ SolveStepOf(m)

\* C26: a solve method called right after a call of itself leaves every
\* stored result and graph as the first call left it; the entry of
\* solve_basic_transportation keeps its supply, demand, factories and
\* warehouses lists, with no second dummy node.
C26_SolveTwiceSameEntry ==
    [][\A m \in SolveMethods(demo) :
          SecondCallOf(m) =>
              /\ lpResults' = lpResults
              /\ netResults' = netResults
              /\ netGraphs' = netGraphs
              /\ tpResults' = tpResults
              /\ m = "solve_basic_transportation" =>
                     /\ Len(tpResults'["basic"].supply)
                            = Len(tpResults["basic"].supply)
                     /\ Len(tpResults'["basic"].warehouses)
                            = Len(tpResults["basic"].warehouses)
                     /\ Len(tpResults'["basic"].original_demand)
                            = Len(basic_demand)
      ]_vars

\* the basic transportation problem was solved twice in a row on data that
\* needs a dummy warehouse, and the entry holds one dummy warehouse
C26_Witness ==
    /\ demo = "tp"
    /\ Len(callLog) >= 2
    /\ callLog[1] = "solve_basic_transportation"
    /\ callLog[2] = "solve_basic_transportation"
    /\ Len(tpResults["basic"].warehouses) = Len(basic_warehouses) + 1
    /\ Len(tpResults["basic"].original_warehouses) = Len(basic_warehouses)

\* what the flow f carries into the node v, and out of it
Inflow(f, v) == SumOver({e \in DOMAIN f : e[2] = v}, f)
Outflow(f, v) == SumOver({e \in DOMAIN f : e[1] = v}, f)

\* C27: the flow solve_max_flow_problem returns conserves flow: at each of
\* A, B, C and D what flows in equals what flows out, and what leaves S and
\* what enters T both equal max_flow_value.
C27_FlowConserved ==
    MaxFlowDone =>
        \A r \in {netResults["max_flow"]} :
            /\ DOMAIN r.flow_dict
                   = {<<edges_capacity[k][1], edges_capacity[k][2]>> :
                         k \in 1..Len(edges_capacity)}
            /\ \A v \in {"A", "B", "C", "D"} :
                   Inflow(r.flow_dict, v) = Outflow(r.flow_dict, v)
            /\ Outflow(r.flow_dict, "S") - Inflow(r.flow_dict, "S")
                   = r.max_flow_value
            /\ Inflow(r.flow_dict, "T") - Outflow(r.flow_dict, "T")
                   = r.max_flow_value
            /\ Inflow(r.flow_dict, "S") = 0
            /\ Outflow(r.flow_dict, "T") = 0

\* max flow is solved, and its flow reaches C over two edges and leaves B
C27_Witness ==
    /\ MaxFlowDone
    /\ netResults["max_flow"].max_flow_value > 0
    /\ Cardinality({e \in DOMAIN netResults["max_flow"].flow_dict :
                       e[2] = "C" /\ netResults["max_flow"].flow_dict[e] > 0}) >= 2
    /\ Cardinality({e \in DOMAIN netResults["max_flow"].flow_dict :
                       e[1] = "B" /\ netResults["max_flow"].flow_dict[e] > 0}) >= 1

\* C28: the optimum of every variant sensitivity_analysis solves is at least
\* the baseline max_profit when the change is an increase and at most the
\* baseline when it is a decrease; for a product the baseline plan does not
\* make, every decrease gives exactly the baseline max_profit.
C28_SensitivityMonotone ==
    LpSolved =>
        \A p \in 1..Len(variantLog) :
            \A e \in {variantLog[p]} :
                /\ e.den > 0 /\ lpResults.den > 0
                /\ e.change > 0 =>
                       e.new_max_profit * lpResults.den
                           >= lpResults.max_profit * e.den
                /\ e.change < 0 =>
                       e.new_max_profit * lpResults.den
                           <= lpResults.max_profit * e.den
                /\ (e.change < 0
                        /\ lpResults.solution[ProductNumber(e.product)] = 0) =>
                       e.new_max_profit * lpResults.den
                           = lpResults.max_profit * e.den

\* a whole analysis has run: some increase raised the optimum, some decrease
\* lowered it, and the decreases for the product that is not made changed
\* nothing
C28_Witness ==
    /\ LpSolved
    /\ Len(variantLog) >= Len(products) * Len(sensitivity_changes)
    /\ \E p \in 1..Len(variantLog) :
           /\ variantLog[p].change > 0
           /\ variantLog[p].new_max_profit * lpResults.den
                  > lpResults.max_profit * variantLog[p].den
    /\ \E p \in 1..Len(variantLog) :
           /\ variantLog[p].change < 0
           /\ variantLog[p].new_max_profit * lpResults.den
                  < lpResults.max_profit * variantLog[p].den
    /\ \E p \in 1..Len(variantLog) :
           /\ variantLog[p].change < 0
           /\ lpResults.solution[ProductNumber(variantLog[p].product)] = 0

\* the transportation problem of product p alone: its supply column, its
\* demand column and its slice of the cost tensor; variable (i - 1) * M + j
\* is the quantity from factory i to market j
SingleProductModel(p) ==
    LET F == Len(multi_factories)
        M == Len(markets)
    IN  [sense |-> "min",
         obj   |-> [k \in 1..(F * M) |->
                       cost_tensor[((k - 1) \div M) + 1][p][((k - 1) % M) + 1]],
         cons  |-> [i \in 1..F |->
                       [coef |-> [k \in 1..(F * M) |->
                                     IF ((k - 1) \div M) + 1 = i THEN 1 ELSE 0],
                        op   |-> "le",
                        rhs  |-> supply_matrix[i][p]]]
                   \o
                   [j \in 1..M |->
                       [coef |-> [k \in 1..(F * M) |->
                                     IF ((k - 1) % M) + 1 = j THEN 1 ELSE 0],
                        op   |-> "ge",
                        rhs  |-> demand_matrix[j][p]]],
         up    |-> NoUpBound]

\* the optimal cost of product p alone, as <<numerator, denominator, status>>
SingleProductOptimum ==
    [p \in 1..Len(multi_products) |->
        Only({<<LpValue(SingleProductModel(p), sol), sol.den, sol.status>>
              : sol \in {LpSolve(SingleProductModel(p), "first")}})]

\* C29: the min_cost solve_multi_product_transportation stores is the sum,
\* over the two products, of the optimal cost of the transportation problem
\* of that product alone.
C29_MultiDecomposesByProduct ==
    MultiDone =>
        \A r \in {tpResults["multi_product"]}, a \in {SingleProductOptimum[1]},
           b \in {SingleProductOptimum[2]} :
            /\ Len(multi_products) = 2
            /\ a[3] = "Optimal" /\ b[3] = "Optimal"
            /\ r.min_cost * a[2] * b[2] = (a[1] * b[2] + b[1] * a[2]) * r.den

\* the multi-product problem is solved, both products are shipped, and each
\* product alone costs something
C29_Witness ==
    /\ MultiDone
    /\ {tpResults["multi_product"].route_details[k].product :
           k \in 1..Len(tpResults["multi_product"].route_details)}
           = RangeOf(multi_products)
    /\ SingleProductOptimum[1][1] > 0
    /\ SingleProductOptimum[2][1] > 0
    /\ tpResults["multi_product"].min_cost
           > SingleProductOptimum[1][1] * tpResults["multi_product"].den

\* the integer flows on the fixed network, built from the five quantities that
\* conservation at A, B, C and D leaves free
FlowsFrom(a, b, x, y, z) ==
    [e \in GraphEdges(MaxFlowGraph) |->
        CASE e = <<"S", "A">> -> a
          [] e = <<"S", "B">> -> b
          [] e = <<"A", "B">> -> x
          [] e = <<"C", "B">> -> y
          [] e = <<"D", "C">> -> z
          [] e = <<"A", "C">> -> a - x
          [] e = <<"B", "D">> -> b + x + y
          [] e = <<"D", "T">> -> b + x + y - z
          [] e = <<"C", "T">> -> a - x + z - y]

\* every integer S-T flow of the fixed network: within capacity on each edge
Flows ==
    {f \in {FlowsFrom(a, b, x, y, z) :
               a \in 0..Capacity(MaxFlowGraph, "S", "A"),
               b \in 0..Capacity(MaxFlowGraph, "S", "B"),
               x \in 0..Capacity(MaxFlowGraph, "A", "B"),
               y \in 0..Capacity(MaxFlowGraph, "C", "B"),
               z \in 0..Capacity(MaxFlowGraph, "D", "C")} :
        \A e \in GraphEdges(MaxFlowGraph) :
            0 <= f[e] /\ f[e] <= Capacity(MaxFlowGraph, e[1], e[2])}

FlowValue(f) == f[<<"S", "A">>] + f[<<"S", "B">>]

\* the most any flow carries
MostFlow == MaxOf({FlowValue(f) : f \in Flows})

\* the maximum flows: no flow carries more
MaxFlows == {f \in Flows : FlowValue(f) = MostFlow}

\* the edges that leave the source side X of a cut
CutEdges(X) ==
    {e \in GraphEdges(MaxFlowGraph) : e[1] \in X /\ e[2] \notin X}

\* the edges a flow f gets reported as bottlenecks
BottlenecksOf(f) ==
    {<<d.from, d.to>> :
        d \in RangeOf(SelectSeq(FlowDetails(MaxFlowGraph, f), IsBottleneck))}

\* the edges reported as bottlenecks whichever maximum flow is returned
AlwaysBottlenecks ==
    {e \in GraphEdges(MaxFlowGraph) : \A f \in MaxFlows : e \in BottlenecksOf(f)}

\* C30: the flow solve_max_flow_problem stores is one of the maximum flows of
\* the fixed network, and whichever of them it is, the edges A->C, D->C and
\* D->T of the minimum cut {S, A, B, D} are in bottleneck_edges, which is
\* therefore never empty.
C30_MinCutEdgesAreBottlenecks ==
    MaxFlowDone =>
        \A r \in {netResults["max_flow"]} :
            /\ r.flow_dict \in MaxFlows
            /\ CutEdges({"S", "A", "B", "D"})
                   = {<<"A", "C">>, <<"D", "C">>, <<"D", "T">>}
            /\ CutEdges({"S", "A", "B", "D"}) \subseteq AlwaysBottlenecks
            /\ \A e \in CutEdges({"S", "A", "B", "D"}) :
                   EntriesOf(r.bottleneck_edges, e[1], e[2]) # {}
            /\ Len(r.bottleneck_edges) > 0

\* max flow is solved, the network has more than one maximum flow, the cut
\* {S, A, B, D} is a minimum cut, and some edge outside it is a bottleneck of
\* one maximum flow and not of another
C30_Witness ==
    /\ MaxFlowDone
    /\ Cardinality(MaxFlows) > 1
    /\ CutCapacity({"S", "A", "B", "D"}) = netResults["max_flow"].max_flow_value
    /\ \E f, g \in MaxFlows :
           \E e \in GraphEdges(MaxFlowGraph) \ CutEdges({"S", "A", "B", "D"}) :
               e \in BottlenecksOf(f) /\ e \notin BottlenecksOf(g)

=============================================================================
